---- MODULE Spec2Model ----
(***************************************************************************)
(* A model of hermit-sync: the spin mutex, the ticket mutex, the readers-  *)
(* writer spin lock, the interrupt gate (read_disable / restore /          *)
(* without_interrupts) and the interrupt-masking mutex.                    *)
(*                                                                         *)
(* Every atomic memory operation of the source is one step of the model;   *)
(* an operation that performs several atomic operations is split into one  *)
(* action per atomic operation, with the context's position kept in a      *)
(* program counter.  Each component has its own specification, in which    *)
(* the variables of the other components stay at their initial values.     *)
(***************************************************************************)
EXTENDS Integers, Sequences, FiniteSets, TLC

(***************************************************************************)
(* Bounds of the model.                                                    *)
(***************************************************************************)
\* Number of execution contexts (CPU cores) that use one lock.
NumCtx == 3
\* Number of lock acquisitions each context makes on a spin or ticket mutex.
MaxIter == 2

Ctx == 1 .. NumCtx

(***************************************************************************)
(* Bit operations on naturals (&, |, ^ of the source).                     *)
(***************************************************************************)
RECURSIVE BitAnd(_, _)
BitAnd(a, b) ==
    IF a = 0 \/ b = 0 THEN 0
    ELSE (IF a % 2 = 1 /\ b % 2 = 1 THEN 1 ELSE 0) + 2 * BitAnd(a \div 2, b \div 2)

RECURSIVE BitOr(_, _)
BitOr(a, b) ==
    IF a = 0 THEN b
    ELSE IF b = 0 THEN a
    ELSE (IF a % 2 = 1 \/ b % 2 = 1 THEN 1 ELSE 0) + 2 * BitOr(a \div 2, b \div 2)

RECURSIVE BitXor(_, _)
BitXor(a, b) ==
    IF a = 0 THEN b
    ELSE IF b = 0 THEN a
    ELSE (IF a % 2 # b % 2 THEN 1 ELSE 0) + 2 * BitXor(a \div 2, b \div 2)

\* a & !b
BitClear(a, b) == a - BitAnd(a, b)

\* the result of a try_* operation, as recorded per context
Ret(b) == IF b THEN "true" ELSE "false"

VARIABLES
    \* build configuration
    debug,          \* debug_assertions / overflow-checks are compiled in
    \* spin mutex (mutex/spin.rs)
    lock,           \* RawSpinMutex.lock: AtomicBool
    spc,            \* position of each context in its spin-mutex operation
    sret,           \* result of the try_lock the context made last; "none" once it
                    \* calls its next operation
    scnt,           \* the plain counter CNT protected by the mutex
    sreg,           \* the value of CNT a context read for CNT += 1
    sincs,          \* number of CNT += 1 statements completed (ghost)
    sdone,          \* number of critical sections each context has completed
    \* ticket mutex (mutex/ticket.rs)
    next_ticket,    \* RawTicketMutex.next_ticket: AtomicUsize
    next_serving,   \* RawTicketMutex.next_serving: AtomicUsize
    tpc,            \* position of each context in its ticket-mutex operation
    ticket,         \* the local `ticket` of lock / try_lock / bump (0 when unused)
    tret,           \* result of the try_lock the context made last, "bump" from
                    \* the lock() of a bump that released the mutex; "none" once
                    \* it calls its next operation
    tcnt,           \* the plain counter CNT protected by the mutex
    treg,           \* the value of CNT a context read for CNT += 1
    tincs,          \* number of CNT += 1 statements completed (ghost)
    tdone,          \* number of tickets each context has drawn
    tqueue,         \* contexts with an outstanding ticket, in drawing order (ghost)
    \* readers-writer lock (rwlock.rs)
    rw,             \* RawRwSpinLock.lock: AtomicUsize
    rpc,            \* position of each context in its rwlock operation
    rop,            \* the rwlock operation a context is executing ("none" if idle)
    rmode,          \* what the context holds: "none", "shared", "upgr", "excl"
    rsh,            \* number of shared locks the context holds
    rdown,          \* the context holds a shared lock that its downgrade
                    \* left it with (ghost)
    rret,           \* the try_*, downgrade or downgrade_to_upgradable the
                    \* context made last and its result, such as
                    \* "try_upgrade=false" or "downgrade=done";
                    \* "none" once it calls its next operation
    \* interrupt gate (interrupts.rs)
    arch,           \* target_arch
    os_none,        \* cfg!(target_os = "none"): a freestanding target
    ghw,            \* the interrupt state register of the CPU
    gstack,         \* the active without_interrupts calls: their `flags`
    gstat,          \* "run", or "unwinding" while a panic unwinds the stack
    glast,          \* the last step taken and the register before that call (ghost)
    \* interrupt-masking mutex (mutex/interrupt.rs)
    hw,             \* the interrupt state register of each CPU
    ilock,          \* the inner mutex of each RawInterruptMutex (its lock word)
    iowner,         \* the CPU whose context holds each inner mutex, 0 if none (ghost)
    interrupt_guard, \* RawInterruptMutex.interrupt_guard: whether it is initialized,
                    \* and the flags of the guard it holds
    ipc,            \* position of each CPU's context in its operation
    imx,            \* the mutex that operation is called on
    iguard,         \* the flags of the local `guard` of that operation
    iheld,          \* the mutexes each CPU's context has locked
    iret,           \* what the context's last try_lock or unlock returned with:
                    \* "true", "false" or "unlocked"; "none" before
    irq_in_cs,      \* an interrupt was taken on the CPU while its context held
                    \* an inner mutex (ghost)
    ihw0            \* the interrupt state register of each CPU when its context
                    \* called the operation under way, the register itself
                    \* between operations (ghost)

spinVars == <<lock, spc, sret, scnt, sreg, sincs, sdone>>

(***************************************************************************)
(* Spin mutex: mutex/spin.rs                                               *)
(***************************************************************************)
\* compare_exchange(false, true) on the lock word: the value stored and
\* whether the exchange succeeded.
SpinCasAlwaysOk(cur) == [ok |-> TRUE, new |-> TRUE]
SpinCasStoreOnFail(cur) == [ok |-> cur = FALSE, new |-> ~cur]
SpinCas(cur) == [ok |-> cur = FALSE, new |-> IF cur = FALSE THEN TRUE ELSE cur]

SpinInit ==
    /\ lock = FALSE
    /\ spc = [c \in Ctx |-> "idle"]
    /\ sret = [c \in Ctx |-> "none"]
    /\ scnt = 0
    /\ sreg = [c \in Ctx |-> 0]
    /\ sincs = 0
    /\ sdone = [c \in Ctx |-> 0]

\* lock(): entry; Backoff::new()
SpinLockCall(c) ==
    /\ spc[c] = "idle"
    /\ sdone[c] < MaxIter
    /\ spc' = [spc EXCEPT ![c] = "lock_cas"]
    /\ sret' = [sret EXCEPT ![c] = "none"]
    /\ UNCHANGED <<lock, scnt, sreg, sincs, sdone>>

\* lock(): the outer loop's compare_exchange_weak(false, true), which may
\* fail spuriously
SpinLockCas(c) ==
    /\ spc[c] = "lock_cas"
    /\ \/ /\ SpinCas(lock).ok
          /\ lock' = SpinCas(lock).new
          /\ spc' = [spc EXCEPT ![c] = "held"]
       \/ /\ UNCHANGED lock
          /\ spc' = [spc EXCEPT ![c] = "lock_spin"]
    /\ UNCHANGED <<sret, scnt, sreg, sincs, sdone>>

\* lock(): the inner loop, while self.is_locked() { backoff.spin() }
SpinLockSpin(c) ==
    /\ spc[c] = "lock_spin"
    /\ spc' = [spc EXCEPT ![c] = IF lock THEN "lock_spin" ELSE "lock_cas"]
    /\ UNCHANGED <<lock, sret, scnt, sreg, sincs, sdone>>

\* try_lock(): one strong compare_exchange(false, true)
SpinTryLock(c) ==
    /\ spc[c] = "idle"
    /\ sdone[c] < MaxIter
    /\ lock' = SpinCas(lock).new
    /\ sret' = [sret EXCEPT ![c] = Ret(SpinCas(lock).ok)]
    /\ spc' = [spc EXCEPT ![c] = IF SpinCas(lock).ok THEN "held" ELSE "idle"]
    /\ UNCHANGED <<scnt, sreg, sincs, sdone>>

\* the critical section of tests::lots_and_lots, CNT += 1: the read of CNT
SpinCsRead(c) ==
    /\ spc[c] = "held"
    /\ sreg' = [sreg EXCEPT ![c] = scnt]
    /\ spc' = [spc EXCEPT ![c] = "cs_write"]
    /\ UNCHANGED <<lock, sret, scnt, sincs, sdone>>

\* CNT += 1: the write of CNT
SpinCsWrite(c) ==
    /\ spc[c] = "cs_write"
    /\ scnt' = sreg[c] + 1
    /\ sreg' = [sreg EXCEPT ![c] = 0]
    /\ sincs' = sincs + 1
    /\ spc' = [spc EXCEPT ![c] = "cs_done"]
    /\ UNCHANGED <<lock, sret, sdone>>

\* unlock(): store(false, Release), called by the holder
SpinUnlock(c) ==
    /\ spc[c] \in {"held", "cs_done"}
    /\ lock' = FALSE
    /\ spc' = [spc EXCEPT ![c] = "idle"]
    /\ sdone' = [sdone EXCEPT ![c] = @ + 1]
    /\ sret' = [sret EXCEPT ![c] = "none"]
    /\ UNCHANGED <<scnt, sreg, sincs>>

SpinHolders == {c \in Ctx : spc[c] \in {"held", "cs_write", "cs_done"}}

(***************************************************************************)
(* Ticket mutex: mutex/ticket.rs                                           *)
(***************************************************************************)
\* Width of the two counters in bits (usize, reduced).  Where a context
\* draws at most MaxIter tickets, NumCtx * MaxIter < 2^TicketBits tickets are
\* drawn in one run; where the contexts call without end, the counters wrap.
TicketBits == 3
TicketMod == 2 ^ TicketBits
TicketMax == TicketMod - 1

\* fetch_add(1) on a counter wraps around
WrappingIncTwo(v) == (v + 2) % TicketMod
WrappingInc(v) == (v + 1) % TicketMod

\* is_locked(): next_serving.load(Relaxed) != next_ticket.load(Relaxed)
ticket_is_locked(tkt, srv) == srv # tkt

\* lock(): the loop condition, next_serving.load() != ticket
TicketMustWaitNever(srv, t) == FALSE
TicketMustWait(srv, t) == srv # t

\* try_lock(): the test of fetch_update's closure,
\* self.next_serving.load(Acquire) == ticket
TicketTryFreeAlways(srv, t) == TRUE
TicketTryFree(srv, t) == srv = t

\* bump(): the test serving + 1 != ticket
TicketBumpReleaseAlways(srv, t) == TRUE
TicketBumpMustRelease(srv, t) == WrappingInc(srv) # t

\* unlock(): next_serving.fetch_add(1, Release)
TicketServeSame(srv) == srv
TicketServeSkip(srv) == (srv + 2) % TicketMod
TicketServeNext(srv) == WrappingInc(srv)

ticketVars == <<next_ticket, next_serving, tpc, ticket, tret,
                tcnt, treg, tincs, tdone, tqueue>>

TicketInit ==
    /\ next_ticket = 0
    /\ next_serving = 0
    /\ tpc = [c \in Ctx |-> "idle"]
    /\ ticket = [c \in Ctx |-> 0]
    /\ tret = [c \in Ctx |-> "none"]
    /\ tcnt = 0
    /\ treg = [c \in Ctx |-> 0]
    /\ tincs = 0
    /\ tdone = [c \in Ctx |-> 0]
    /\ tqueue = << >>

\* the sequence q without its element x
RECURSIVE SeqRemove(_, _)
SeqRemove(q, x) ==
    IF q = << >> THEN << >>
    ELSE IF Head(q) = x THEN Tail(q)
    ELSE <<Head(q)>> \o SeqRemove(Tail(q), x)

\* lock(): let ticket = self.next_ticket.fetch_add(1, Relaxed)
TicketLockDraw(c) ==
    /\ tpc[c] = "idle"
    /\ ticket' = [ticket EXCEPT ![c] = next_ticket]
    /\ next_ticket' = WrappingInc(next_ticket)
    /\ tqueue' = Append(tqueue, c)
    /\ tpc' = [tpc EXCEPT ![c] = "lock_wait"]
    /\ tret' = [tret EXCEPT ![c] = "none"]
    /\ UNCHANGED <<next_serving, tcnt, treg, tincs>>

\* lock() called by a context that draws at most MaxIter tickets
TicketLockFetchAdd(c) ==
    /\ tdone[c] < MaxIter
    /\ TicketLockDraw(c)
    /\ tdone' = [tdone EXCEPT ![c] = @ + 1]

\* lock(): while self.next_serving.load(Acquire) != ticket { backoff.spin() }
TicketLockWait(c) ==
    /\ tpc[c] = "lock_wait"
    /\ tpc' = [tpc EXCEPT ![c] =
                 IF TicketMustWait(next_serving, ticket[c]) THEN "lock_wait" ELSE "held"]
    /\ UNCHANGED <<next_ticket, next_serving, ticket, tret,
                   tcnt, treg, tincs, tdone, tqueue>>

\* try_lock(): fetch_update's initial load of next_ticket
TicketTryBegin(c) ==
    /\ tpc[c] = "idle"
    /\ ticket' = [ticket EXCEPT ![c] = next_ticket]
    /\ tpc' = [tpc EXCEPT ![c] = "try_f"]
    /\ tret' = [tret EXCEPT ![c] = "none"]
    /\ UNCHANGED <<next_ticket, next_serving, tcnt, treg, tincs, tdone, tqueue>>

\* try_lock() called by a context that draws at most MaxIter tickets
TicketTryLoad(c) ==
    /\ tdone[c] < MaxIter
    /\ TicketTryBegin(c)

\* try_lock(): the closure of fetch_update: Some(ticket + 1) if
\* next_serving.load(Acquire) == ticket, None (try_lock returns false)
\* otherwise.  ticket + 1 panics on overflow when overflow checks are on.
TicketTryF(c) ==
    /\ tpc[c] = "try_f"
    /\ IF TicketTryFree(next_serving, ticket[c])
       THEN /\ tpc' = [tpc EXCEPT ![c] =
                        IF debug /\ ticket[c] = TicketMax THEN "panicked" ELSE "try_cas"]
            /\ UNCHANGED <<ticket, tret>>
       ELSE /\ tpc' = [tpc EXCEPT ![c] = "idle"]
            /\ tret' = [tret EXCEPT ![c] = "false"]
            /\ ticket' = [ticket EXCEPT ![c] = 0]
    /\ UNCHANGED <<next_ticket, next_serving, tcnt, treg, tincs, tdone, tqueue>>

\* try_lock(): fetch_update's compare_exchange_weak(prev, prev + 1); on
\* failure (also a spurious one) the closure runs again on the value found
TicketTryExchange(c) ==
    /\ tpc[c] = "try_cas"
    /\ \/ /\ next_ticket = ticket[c]
          /\ next_ticket' = WrappingInc(ticket[c])
          /\ tpc' = [tpc EXCEPT ![c] = "held"]
          /\ tret' = [tret EXCEPT ![c] = "true"]
          /\ tqueue' = Append(tqueue, c)
          /\ UNCHANGED ticket
       \/ /\ ticket' = [ticket EXCEPT ![c] = next_ticket]
          /\ tpc' = [tpc EXCEPT ![c] = "try_f"]
          /\ UNCHANGED <<next_ticket, tret, tqueue>>
    /\ UNCHANGED <<next_serving, tcnt, treg, tincs>>

\* the same, with the ticket it draws counted
TicketTryCas(c) ==
    /\ TicketTryExchange(c)
    /\ tdone' = [tdone EXCEPT ![c] = IF tpc'[c] = "held" THEN @ + 1 ELSE @]

\* the critical section of tests::lots_and_lots, CNT += 1: the read of CNT
TicketCsRead(c) ==
    /\ tpc[c] \in {"held", "held_bumped"}
    /\ treg' = [treg EXCEPT ![c] = tcnt]
    /\ tpc' = [tpc EXCEPT ![c] = "cs_write"]
    /\ UNCHANGED <<next_ticket, next_serving, ticket, tret,
                   tcnt, tincs, tdone, tqueue>>

\* CNT += 1: the write of CNT
TicketCsWrite(c) ==
    /\ tpc[c] = "cs_write"
    /\ tcnt' = treg[c] + 1
    /\ treg' = [treg EXCEPT ![c] = 0]
    /\ tincs' = tincs + 1
    /\ tpc' = [tpc EXCEPT ![c] = "cs_done"]
    /\ UNCHANGED <<next_ticket, next_serving, ticket, tret, tdone, tqueue>>

\* unlock(): self.next_serving.fetch_add(1, Release), called by the holder
TicketUnlock(c) ==
    /\ tpc[c] \in {"held", "held_bumped", "cs_done"}
    /\ next_serving' = TicketServeNext(next_serving)
    /\ tqueue' = SeqRemove(tqueue, c)
    /\ tpc' = [tpc EXCEPT ![c] = "idle"]
    /\ ticket' = [ticket EXCEPT ![c] = 0]
    /\ tret' = [tret EXCEPT ![c] = "none"]
    /\ UNCHANGED <<next_ticket, tcnt, treg, tincs, tdone>>

\* unlock_fair(): unsafe { self.unlock() }
TicketUnlockFair(c) ==
    /\ tpc[c] = "cs_done"
    /\ next_serving' = TicketServeNext(next_serving)
    /\ tqueue' = SeqRemove(tqueue, c)
    /\ tpc' = [tpc EXCEPT ![c] = "idle"]
    /\ ticket' = [ticket EXCEPT ![c] = 0]
    /\ tret' = [tret EXCEPT ![c] = "none"]
    /\ UNCHANGED <<next_ticket, tcnt, treg, tincs, tdone>>

\* bump(): let ticket = self.next_ticket.load(Relaxed), called by the holder
TicketBumpLoadTicket(c) ==
    /\ tpc[c] = "held"
    /\ tdone[c] < MaxIter
    /\ ticket' = [ticket EXCEPT ![c] = next_ticket]
    /\ tpc' = [tpc EXCEPT ![c] = "bump_serving"]
    /\ tret' = [tret EXCEPT ![c] = "none"]
    /\ UNCHANGED <<next_ticket, next_serving, tcnt, treg, tincs, tdone, tqueue>>

\* bump(): let serving = self.next_serving.load(Relaxed);
\* if serving + 1 != ticket { ... }.  serving + 1 panics on overflow when
\* overflow checks are on and wraps otherwise.
TicketBumpLoadServing(c) ==
    /\ tpc[c] = "bump_serving"
    /\ tpc' = [tpc EXCEPT ![c] =
                 IF debug /\ next_serving = TicketMax THEN "panicked_held"
                 ELSE IF TicketBumpMustRelease(next_serving, ticket[c]) THEN "bump_unlock"
                 ELSE "held_bumped"]
    /\ ticket' = [ticket EXCEPT ![c] = 0]
    /\ UNCHANGED <<next_ticket, next_serving, tret, tcnt, treg, tincs, tdone, tqueue>>

\* bump(): self.unlock_fair()
TicketBumpUnlock(c) ==
    /\ tpc[c] = "bump_unlock"
    /\ next_serving' = TicketServeNext(next_serving)
    /\ tqueue' = SeqRemove(tqueue, c)
    /\ tpc' = [tpc EXCEPT ![c] = "bump_lock"]
    /\ UNCHANGED <<next_ticket, ticket, tret,
                   tcnt, treg, tincs, tdone>>

\* bump(): self.lock(), its fetch_add; the wait is TicketLockWait
TicketBumpLock(c) ==
    /\ tpc[c] = "bump_lock"
    /\ ticket' = [ticket EXCEPT ![c] = next_ticket]
    /\ next_ticket' = WrappingInc(next_ticket)
    /\ tdone' = [tdone EXCEPT ![c] = @ + 1]
    /\ tqueue' = Append(tqueue, c)
    /\ tpc' = [tpc EXCEPT ![c] = "lock_wait"]
    /\ tret' = [tret EXCEPT ![c] = "bump"]
    /\ UNCHANGED <<next_serving, tcnt, treg, tincs>>

\* the contexts between a lock / try_lock that returned and their release
TicketHolders ==
    {c \in Ctx : tpc[c] \in {"held", "held_bumped", "cs_write", "cs_done",
                              "bump_serving", "bump_unlock", "panicked_held"}}

(***************************************************************************)
(* Readers-writer spin lock: rwlock.rs                                     *)
(***************************************************************************)
SHARED == 4
UPGRADABLE == 2
EXCLUSIVE == 1

\* Width of the state word in bits (usize, reduced)
RwBits == 5
RwMod == 2 ^ RwBits
\* usize::MAX
RwMax == RwMod - 1
\* Number of shared locks one context takes recursively
MaxRecursive == 2

rwVars == <<rw, rpc, rop, rmode, rsh, rdown, rret>>

RwInit ==
    /\ rw = 0
    /\ rpc = [c \in Ctx |-> "idle"]
    /\ rop = [c \in Ctx |-> "none"]
    /\ rmode = [c \in Ctx |-> "none"]
    /\ rsh = [c \in Ctx |-> 0]
    /\ rdown = [c \in Ctx |-> FALSE]
    /\ rret = [c \in Ctx |-> "none"]

\* is_locked_shared(): lock & !(EXCLUSIVE | UPGRADABLE) != 0
is_locked_shared(w) == BitClear(w, BitOr(EXCLUSIVE, UPGRADABLE)) # 0
\* is_locked_upgradable(): lock & UPGRADABLE == UPGRADABLE
is_locked_upgradable(w) == BitAnd(w, UPGRADABLE) = UPGRADABLE
\* is_locked_exclusive(): lock & EXCLUSIVE == EXCLUSIVE
is_locked_exclusive(w) == BitAnd(w, EXCLUSIVE) = EXCLUSIVE
\* is_locked(): lock != 0
is_locked(w) == w # 0

\* fetch_add(SHARED) / fetch_sub(SHARED) on the state word wrap around
RwAddNothing(w) == w
RwAdd(w) == (w + SHARED) % RwMod
RwSubNothing(w) == w
RwSub(w) == (w + RwMod - SHARED) % RwMod

\* acquire_shared(): the overflow test, value > usize::MAX / 2
RwOverflowNever(value) == FALSE
RwOverflowLate(value) == value > RwMax \div 2 + SHARED
RwOverflow(value) == value > RwMax \div 2

\* try_lock_shared(): acquired = value & EXCLUSIVE != EXCLUSIVE
SharedAcquiredAlways(value) == TRUE
SharedAcquiredNoUpgradable(value) == BitAnd(value, BitOr(EXCLUSIVE, UPGRADABLE)) = 0
SharedAcquired(value) == BitAnd(value, EXCLUSIVE) # EXCLUSIVE

\* try_lock_upgradable(): acquired = value & (UPGRADABLE | EXCLUSIVE) == 0
UpgradableAcquired(value) == BitAnd(value, BitOr(UPGRADABLE, EXCLUSIVE)) = 0
\* try_lock_upgradable(): the rollback condition, !acquired && value & UPGRADABLE == 0
UpgradableRollback(value) == ~UpgradableAcquired(value) /\ BitAnd(value, UPGRADABLE) = 0

\* downgrade_to_upgradable(): fetch_xor(UPGRADABLE | EXCLUSIVE)
DowngradeToUpgradableWord(w) == BitXor(w, BitOr(UPGRADABLE, EXCLUSIVE))

\* the operations a context may call, given what it holds
RwOpsOf(c) ==
    CASE rmode[c] = "none" ->
            {"try_lock_shared", "lock_shared", "try_lock_exclusive", "lock_exclusive",
             "try_lock_upgradable", "lock_upgradable"}
      [] rmode[c] = "shared" ->
            {"unlock_shared"} \cup
            (IF rsh[c] < MaxRecursive THEN {"try_lock_shared", "lock_shared"} ELSE {})
      [] rmode[c] = "excl" ->
            {"unlock_exclusive", "downgrade", "downgrade_to_upgradable"}
      [] rmode[c] = "upgr" ->
            {"unlock_upgradable", "upgrade", "try_upgrade", "downgrade_upgradable"}

\* where an unlock_* function starts: at its debug_assert! when debug
\* assertions are compiled in, at its atomic operation otherwise
UnlockEntry(kind) == IF debug THEN kind \o "_assert" ELSE kind \o "_op"

\* the first step of each operation
RwEntry(op) ==
    CASE op \in {"try_lock_shared", "lock_shared", "downgrade", "downgrade_upgradable"} ->
            "acquire_shared"
      [] op = "unlock_shared" -> UnlockEntry("unlock_shared")
      [] op = "lock_exclusive" -> "lock_exclusive_cas"
      [] op = "try_lock_exclusive" -> "try_lock_exclusive_cas"
      [] op = "unlock_exclusive" -> UnlockEntry("unlock_exclusive")
      [] op \in {"try_lock_upgradable", "lock_upgradable"} -> "upgradable_or"
      [] op = "unlock_upgradable" -> UnlockEntry("unlock_upgradable")
      [] op = "upgrade" -> "upgrade_cas"
      [] op = "try_upgrade" -> "try_upgrade_cas"
      [] op = "downgrade_to_upgradable" -> UnlockEntry("downgrade_to_upgradable")

\* a context calls an operation
RwCall(c) ==
    /\ rpc[c] = "idle"
    /\ \E op \in RwOpsOf(c) :
          /\ rop' = [rop EXCEPT ![c] = op]
          /\ rpc' = [rpc EXCEPT ![c] = RwEntry(op)]
    /\ rret' = [rret EXCEPT ![c] = "none"]
    /\ UNCHANGED <<rw, rmode, rsh, rdown>>

\* the operation of context c returns: ret is the result of a try_*,
\* "done" for downgrade and downgrade_to_upgradable and "none" for the other
\* operations, recorded with
\* the name of the operation; mode and n are what c holds afterwards.  The
\* shared lock a downgrade returns with is marked as such until c holds no
\* shared lock any more.
RwReturn(c, ret, mode, n) ==
    /\ rpc' = [rpc EXCEPT ![c] = "idle"]
    /\ rop' = [rop EXCEPT ![c] = "none"]
    /\ rret' = [rret EXCEPT ![c] = IF ret = "none" THEN @ ELSE rop[c] \o "=" \o ret]
    /\ rmode' = [rmode EXCEPT ![c] = mode]
    /\ rsh' = [rsh EXCEPT ![c] = n]
    /\ rdown' = [rdown EXCEPT ![c] = mode = "shared" /\ (rop[c] = "downgrade" \/ @)]

\* the operation of context c goes on at position pc
RwGoto(c, pc) ==
    /\ rpc' = [rpc EXCEPT ![c] = pc]
    /\ UNCHANGED <<rop, rret, rmode, rsh, rdown>>

\* acquire_shared(): value = lock.fetch_add(SHARED, Acquire), the overflow
\* test, and what the caller (try_lock_shared, downgrade,
\* downgrade_upgradable) does with the value returned
RwAcquireShared(c) ==
    /\ rpc[c] = "acquire_shared"
    /\ rw' = RwAdd(rw)
    /\ IF RwOverflow(rw) THEN RwGoto(c, "overflow_sub")
       ELSE IF rop[c] = "downgrade" THEN RwGoto(c, UnlockEntry("unlock_exclusive"))
       ELSE IF rop[c] = "downgrade_upgradable"
            THEN RwGoto(c, UnlockEntry("unlock_upgradable"))
       ELSE IF SharedAcquired(rw)
            THEN RwReturn(c, IF rop[c] = "try_lock_shared" THEN "true" ELSE "none",
                          "shared", rsh[c] + 1)
       ELSE RwGoto(c, UnlockEntry("unlock_shared"))

\* acquire_shared(): lock.fetch_sub(SHARED, Relaxed); panic!(..)
RwOverflowSub(c) ==
    /\ rpc[c] = "overflow_sub"
    /\ rw' = RwSub(rw)
    /\ RwGoto(c, "panicked")

\* unlock_shared(): debug_assert!(self.is_locked_shared())
RwUnlockSharedAssert(c) ==
    /\ rpc[c] = "unlock_shared_assert"
    /\ RwGoto(c, IF is_locked_shared(rw) THEN "unlock_shared_op" ELSE "assert_failed")
    /\ UNCHANGED rw

\* unlock_shared(): lock.fetch_sub(SHARED, Release); called to release a
\* shared lock and by a failed try_lock_shared (lock_shared then tries again)
RwUnlockSharedOp(c) ==
    /\ rpc[c] = "unlock_shared_op"
    /\ rw' = RwSub(rw)
    /\ CASE rop[c] = "unlock_shared" ->
               RwReturn(c, "none", IF rsh[c] = 1 THEN "none" ELSE "shared", rsh[c] - 1)
         [] rop[c] = "try_lock_shared" -> RwReturn(c, "false", rmode[c], rsh[c])
         [] rop[c] = "lock_shared" -> RwGoto(c, "acquire_shared")

\* compare_exchange(0, EXCLUSIVE): the word stored and whether it succeeded
ExclusiveCasOverShared(w) ==
    [ok |-> BitAnd(w, SHARED - 1) = 0,
     new |-> IF BitAnd(w, SHARED - 1) = 0 THEN BitOr(w, EXCLUSIVE) ELSE w]
ExclusiveCas(w) == [ok |-> w = 0, new |-> IF w = 0 THEN EXCLUSIVE ELSE w]

\* lock_exclusive(): compare_exchange_weak(0, EXCLUSIVE), which may fail
\* spuriously; backoff.snooze() and again on failure
RwLockExclusiveCas(c) ==
    /\ rpc[c] = "lock_exclusive_cas"
    /\ \/ /\ ExclusiveCas(rw).ok
          /\ rw' = ExclusiveCas(rw).new
          /\ RwReturn(c, "none", "excl", 0)
       \/ /\ UNCHANGED rw
          /\ RwGoto(c, "lock_exclusive_cas")

\* try_lock_exclusive(): compare_exchange(0, EXCLUSIVE).is_ok()
RwTryLockExclusiveCas(c) ==
    /\ rpc[c] = "try_lock_exclusive_cas"
    /\ rw' = ExclusiveCas(rw).new
    /\ RwReturn(c, Ret(ExclusiveCas(rw).ok), IF ExclusiveCas(rw).ok THEN "excl" ELSE "none", 0)

\* unlock_exclusive(): debug_assert!(self.is_locked_exclusive())
RwUnlockExclusiveAssert(c) ==
    /\ rpc[c] = "unlock_exclusive_assert"
    /\ RwGoto(c, IF is_locked_exclusive(rw) THEN "unlock_exclusive_op" ELSE "assert_failed")
    /\ UNCHANGED rw

\* unlock_exclusive(): lock.fetch_and(!EXCLUSIVE, Release); called to
\* release the exclusive lock and as the second half of downgrade
RwUnlockExclusiveOp(c) ==
    /\ rpc[c] = "unlock_exclusive_op"
    /\ rw' = BitClear(rw, EXCLUSIVE)
    /\ CASE rop[c] = "unlock_exclusive" -> RwReturn(c, "none", "none", 0)
         [] rop[c] = "downgrade" -> RwReturn(c, "done", "shared", 1)

\* try_lock_upgradable(): value = lock.fetch_or(UPGRADABLE, Acquire) and
\* the test of the value; lock_upgradable tries again after a failure
RwUpgradableOr(c) ==
    /\ rpc[c] = "upgradable_or"
    /\ rw' = BitOr(rw, UPGRADABLE)
    /\ IF UpgradableAcquired(rw)
       THEN RwReturn(c, IF rop[c] = "try_lock_upgradable" THEN "true" ELSE "none", "upgr", 0)
       ELSE IF UpgradableRollback(rw)
            THEN RwGoto(c, UnlockEntry("unlock_upgradable"))
       ELSE IF rop[c] = "try_lock_upgradable" THEN RwReturn(c, "false", "none", 0)
       ELSE RwGoto(c, "upgradable_or")

\* unlock_upgradable(): debug_assert!(self.is_locked_upgradable())
RwUnlockUpgradableAssert(c) ==
    /\ rpc[c] = "unlock_upgradable_assert"
    /\ RwGoto(c, IF is_locked_upgradable(rw) THEN "unlock_upgradable_op" ELSE "assert_failed")
    /\ UNCHANGED rw

\* unlock_upgradable(): lock.fetch_and(!UPGRADABLE, Release); called to
\* release the upgradable lock, by a failed try_lock_upgradable and as the
\* second half of downgrade_upgradable
RwUnlockUpgradableOp(c) ==
    /\ rpc[c] = "unlock_upgradable_op"
    /\ rw' = BitClear(rw, UPGRADABLE)
    /\ CASE rop[c] = "unlock_upgradable" -> RwReturn(c, "none", "none", 0)
         [] rop[c] = "try_lock_upgradable" -> RwReturn(c, "false", "none", 0)
         [] rop[c] = "lock_upgradable" -> RwGoto(c, "upgradable_or")
         [] rop[c] = "downgrade_upgradable" -> RwReturn(c, "none", "shared", 1)

\* compare_exchange(UPGRADABLE, EXCLUSIVE): the word stored and whether it
\* succeeded
UpgradeCas(w) == [ok |-> w = UPGRADABLE, new |-> IF w = UPGRADABLE THEN EXCLUSIVE ELSE w]

\* upgrade(): compare_exchange_weak(UPGRADABLE, EXCLUSIVE), which may fail
\* spuriously; backoff.snooze() and again on failure
RwUpgradeCas(c) ==
    /\ rpc[c] = "upgrade_cas"
    /\ \/ /\ UpgradeCas(rw).ok
          /\ rw' = UpgradeCas(rw).new
          /\ RwReturn(c, "none", "excl", 0)
       \/ /\ UNCHANGED rw
          /\ RwGoto(c, "upgrade_cas")

\* try_upgrade(): compare_exchange(UPGRADABLE, EXCLUSIVE).is_ok()
RwTryUpgradeCas(c) ==
    /\ rpc[c] = "try_upgrade_cas"
    /\ rw' = UpgradeCas(rw).new
    /\ RwReturn(c, Ret(UpgradeCas(rw).ok), IF UpgradeCas(rw).ok THEN "excl" ELSE "upgr", 0)

\* downgrade_to_upgradable(): debug_assert!(self.is_locked_exclusive())
RwDowngradeToUpgradableAssert(c) ==
    /\ rpc[c] = "downgrade_to_upgradable_assert"
    /\ RwGoto(c, IF is_locked_exclusive(rw) THEN "downgrade_to_upgradable_op"
                 ELSE "assert_failed")
    /\ UNCHANGED rw

\* downgrade_to_upgradable(): lock.fetch_xor(UPGRADABLE | EXCLUSIVE, Release)
RwDowngradeToUpgradableOp(c) ==
    /\ rpc[c] = "downgrade_to_upgradable_op"
    /\ rw' = DowngradeToUpgradableWord(rw)
    /\ RwReturn(c, "done", "upgr", 0)

\* the contexts that hold the lock in each mode.  A context holds a mode
\* from the return of the acquiring operation to the call of the releasing
\* one; a transition (upgrade, downgrade*) changes the mode on its return.
RwExclusiveHolders == {c \in Ctx : rmode[c] = "excl"}
RwUpgradableHolders == {c \in Ctx : rmode[c] = "upgr"}
RwSharedHolders == {c \in Ctx : rmode[c] = "shared"}

(***************************************************************************)
(* Interrupt gate: interrupts.rs                                           *)
(***************************************************************************)
Archs == {"x86_64", "aarch64", "riscv64"}

\* aarch64: DISABLE = 0b111000000, the A, I and F mask bits of DAIF
DAIF_AIF == 448
\* aarch64: the D mask bit of DAIF, which get and set leave alone
DAIF_D == 512

\* imp::DISABLE: false on x86_64 and riscv64, the three mask bits on aarch64
DISABLE(a) == IF a = "aarch64" THEN DAIF_AIF ELSE FALSE

\* the values of the interrupt state register: RFLAGS.IF (x86_64) and
\* sstatus.SIE (riscv64) as a boolean, DAIF (aarch64) as its bits 6..9
HwStates(a) == IF a = "aarch64" THEN {64 * k : k \in 0 .. 15} ELSE BOOLEAN

\* imp::get(): are_enabled() / sstatus.sie() / DAIF.get() & DISABLE
imp_get(a, h) == IF a = "aarch64" THEN BitAnd(h, DAIF_AIF) ELSE h

\* imp::set(value): enable() or disable() / set_sie() or clear_sie() /
\* DAIF.set((DAIF.get() & !DISABLE) | value)
imp_set(a, h, value) == IF a = "aarch64" THEN BitOr(BitClear(h, DAIF_AIF), value) ELSE value

\* read_disable(): the flags returned and the register afterwards
read_disable_forget(os, a, h) ==
    [flags |-> DISABLE(a), hw |-> IF os THEN imp_set(a, h, DISABLE(a)) ELSE h]
read_disable(os, a, h) ==
    IF os
    THEN [flags |-> imp_get(a, h),
          hw |-> IF imp_get(a, h) # DISABLE(a) THEN imp_set(a, h, DISABLE(a)) ELSE h]
    ELSE [flags |-> DISABLE(a), hw |-> h]

\* restore(flags): the register afterwards
restore_never(os, a, h, flags) == h
restore_always_enable(os, a, h, flags) ==
    IF os THEN imp_set(a, h, IF a = "aarch64" THEN 0 ELSE TRUE) ELSE h
restore(os, a, h, flags) ==
    IF flags # DISABLE(a) /\ os THEN imp_set(a, h, flags) ELSE h

\* interrupts are disabled on a CPU whose register is h
InterruptsDisabled(a, h) == imp_get(a, h) = DISABLE(a)

\* Depth to which without_interrupts calls are nested
MaxDepth == 3

gateVars == <<ghw, gstack, gstat, glast>>
targetVars == <<arch, os_none>>

GateIdle ==
    /\ gstack = << >>
    /\ gstat = "run"
    /\ glast = [kind |-> "none", pre |-> ghw, depth |-> 0]

\* without_interrupts(f): let flags = read_disable(); f is entered
GateEnter ==
    /\ gstat = "run"
    /\ Len(gstack) < MaxDepth
    /\ ghw' = read_disable(os_none, arch, ghw).hw
    /\ gstack' = Append(gstack,
                        [flags |-> read_disable(os_none, arch, ghw).flags, pre |-> ghw])
    /\ glast' = [kind |-> "enter", pre |-> ghw, depth |-> Len(gstack) + 1]
    /\ UNCHANGED gstat

\* without_interrupts(f): f has returned; restore(flags); ret
GateReturn ==
    /\ gstat = "run"
    /\ gstack # << >>
    /\ ghw' = restore(os_none, arch, ghw, gstack[Len(gstack)].flags)
    /\ gstack' = SubSeq(gstack, 1, Len(gstack) - 1)
    /\ glast' = [kind |-> "return", pre |-> gstack[Len(gstack)].pre, depth |-> Len(gstack)]
    /\ UNCHANGED gstat

\* the closure f panics
GatePanic ==
    /\ gstat = "run"
    /\ gstack # << >>
    /\ gstat' = "unwinding"
    /\ glast' = [kind |-> "panic", pre |-> ghw, depth |-> Len(gstack)]
    /\ UNCHANGED <<ghw, gstack>>

\* the panic unwinds through a without_interrupts frame: the statements
\* after f() do not run and `flags` has no destructor
GateUnwind ==
    /\ gstat = "unwinding"
    /\ gstack # << >>
    /\ gstack' = SubSeq(gstack, 1, Len(gstack) - 1)
    /\ glast' = [kind |-> "unwind", pre |-> gstack[Len(gstack)].pre, depth |-> Len(gstack)]
    /\ UNCHANGED <<ghw, gstat>>

\* the panic is caught (catch_unwind) by a caller and execution goes on
GateCaught ==
    /\ gstat = "unwinding"
    /\ gstat' = "run"
    /\ glast' = [kind |-> "caught", pre |-> ghw, depth |-> Len(gstack)]
    /\ UNCHANGED <<ghw, gstack>>

(***************************************************************************)
(* Interrupt-masking mutex: mutex/interrupt.rs.  interrupts::disable()     *)
(* makes a guard of the flags read_disable() returns, and dropping the     *)
(* guard calls restore(flags).  One execution context runs on each CPU;    *)
(* the inner mutex is a RawSpinMutex.                                      *)
(***************************************************************************)
\* Number of CPUs
NumCpu == 2
\* Number of interrupt-masking mutexes
NumMutex == 2

Cpu == 1 .. NumCpu
Mutex == 1 .. NumMutex

imutexVars == <<hw, ilock, iowner, interrupt_guard, ipc, imx, iguard, iheld, iret,
                irq_in_cs, ihw0>>

\* MaybeUninit::uninit(): no guard is stored
Uninit == [init |-> FALSE, flags |-> DISABLE(arch)]

IMutexIdle ==
    /\ ilock = [m \in Mutex |-> FALSE]
    /\ iowner = [m \in Mutex |-> 0]
    /\ interrupt_guard = [m \in Mutex |-> Uninit]
    /\ ipc = [c \in Cpu |-> "idle"]
    /\ imx = [c \in Cpu |-> 0]
    /\ iguard = [c \in Cpu |-> DISABLE(arch)]
    /\ iheld = [c \in Cpu |-> {}]
    /\ iret = [c \in Cpu |-> "none"]
    /\ irq_in_cs = [c \in Cpu |-> FALSE]
    /\ ihw0 = hw

\* lock() / try_lock(): let guard = interrupts::disable()
IMutexDisable(c, m, next) ==
    /\ ipc[c] = "idle"
    /\ m \notin iheld[c]
    /\ hw' = [hw EXCEPT ![c] = read_disable(os_none, arch, hw[c]).hw]
    /\ iguard' = [iguard EXCEPT ![c] = read_disable(os_none, arch, hw[c]).flags]
    /\ imx' = [imx EXCEPT ![c] = m]
    /\ ipc' = [ipc EXCEPT ![c] = next]
    /\ UNCHANGED <<ilock, iowner, interrupt_guard, iheld, iret, irq_in_cs, ihw0>>

\* lock(): let guard = interrupts::disable()
IMutexLockDisable(c, m) == IMutexDisable(c, m, "lock_inner")

\* lock(): self.inner.lock(), which returns once its compare-exchange of
\* the inner lock word has succeeded
IMutexLockInner(c) ==
    /\ ipc[c] = "lock_inner"
    /\ SpinCas(ilock[imx[c]]).ok
    /\ ilock' = [ilock EXCEPT ![imx[c]] = SpinCas(ilock[imx[c]]).new]
    /\ iowner' = [iowner EXCEPT ![imx[c]] = c]
    /\ ipc' = [ipc EXCEPT ![c] = "lock_write"]
    /\ UNCHANGED <<hw, interrupt_guard, imx, iguard, iheld, iret, irq_in_cs, ihw0>>

\* lock() / try_lock(): self.interrupt_guard.get().write(MaybeUninit::new(guard))
IMutexWrite(c, from, ret) ==
    /\ ipc[c] = from
    /\ interrupt_guard' = [interrupt_guard EXCEPT ![imx[c]] =
                             [init |-> TRUE, flags |-> iguard[c]]]
    /\ iheld' = [iheld EXCEPT ![c] = @ \cup {imx[c]}]
    /\ iguard' = [iguard EXCEPT ![c] = DISABLE(arch)]
    /\ imx' = [imx EXCEPT ![c] = 0]
    /\ iret' = [iret EXCEPT ![c] = IF ret = "none" THEN @ ELSE ret]
    /\ ipc' = [ipc EXCEPT ![c] = "idle"]
    /\ ihw0' = [ihw0 EXCEPT ![c] = hw[c]]
    /\ UNCHANGED <<hw, ilock, iowner, irq_in_cs>>

\* lock(): the guard is stored and lock returns
IMutexLockWrite(c) == IMutexWrite(c, "lock_write", "none")

\* try_lock(): let guard = interrupts::disable()
IMutexTryDisable(c, m) == IMutexDisable(c, m, "try_inner")

\* try_lock(): let ok = self.inner.try_lock()
IMutexTryInner(c) ==
    /\ ipc[c] = "try_inner"
    /\ ilock' = [ilock EXCEPT ![imx[c]] = SpinCas(ilock[imx[c]]).new]
    /\ iowner' = [iowner EXCEPT ![imx[c]] = IF SpinCas(ilock[imx[c]]).ok THEN c ELSE @]
    /\ ipc' = [ipc EXCEPT ![c] = IF SpinCas(ilock[imx[c]]).ok THEN "try_write" ELSE "try_drop"]
    /\ UNCHANGED <<hw, interrupt_guard, imx, iguard, iheld, iret, irq_in_cs, ihw0>>

\* try_lock(): ok: the guard is stored and try_lock returns true
IMutexTryWrite(c) == IMutexWrite(c, "try_write", "true")

\* drop(guard): restore(flags), and the operation returns
IMutexDrop(c, from, ret) ==
    /\ ipc[c] = from
    /\ hw' = [hw EXCEPT ![c] = restore(os_none, arch, hw[c], iguard[c])]
    /\ iguard' = [iguard EXCEPT ![c] = DISABLE(arch)]
    /\ imx' = [imx EXCEPT ![c] = 0]
    /\ iret' = [iret EXCEPT ![c] = IF ret = "none" THEN @ ELSE ret]
    /\ ipc' = [ipc EXCEPT ![c] = "idle"]
    /\ ihw0' = [ihw0 EXCEPT ![c] = hw'[c]]
    /\ UNCHANGED <<ilock, iowner, interrupt_guard, iheld, irq_in_cs>>

\* try_lock(): !ok: `guard` goes out of scope and try_lock returns false
IMutexTryDrop(c) == IMutexDrop(c, "try_drop", "false")

\* unlock(): let guard = self.interrupt_guard.get().replace(MaybeUninit::uninit()),
\* called by the holder on any of the mutexes it has locked
IMutexUnlockReplace(c, m) ==
    /\ ipc[c] = "idle"
    /\ m \in iheld[c]
    /\ iguard' = [iguard EXCEPT ![c] = interrupt_guard[m].flags]
    /\ interrupt_guard' = [interrupt_guard EXCEPT ![m] = Uninit]
    /\ iheld' = [iheld EXCEPT ![c] = @ \ {m}]
    /\ imx' = [imx EXCEPT ![c] = m]
    /\ ipc' = [ipc EXCEPT ![c] = "unlock_inner"]
    /\ UNCHANGED <<hw, ilock, iowner, iret, irq_in_cs, ihw0>>

\* unlock(): self.inner.unlock()
IMutexUnlockInner(c) ==
    /\ ipc[c] = "unlock_inner"
    /\ ilock' = [ilock EXCEPT ![imx[c]] = FALSE]
    /\ iowner' = [iowner EXCEPT ![imx[c]] = 0]
    /\ ipc' = [ipc EXCEPT ![c] = "unlock_drop"]
    /\ UNCHANGED <<hw, interrupt_guard, imx, iguard, iheld, iret, irq_in_cs, ihw0>>

\* unlock(): drop(guard)
IMutexUnlockDrop(c) == IMutexDrop(c, "unlock_drop", "unlocked")

\* the inner mutexes the context of CPU c holds: from the return of
\* inner.lock() / a successful inner.try_lock() to inner.unlock()
IMutexOwned(c) == {m \in Mutex : iowner[m] = c}

\* a hardware interrupt is taken on CPU c, which has interrupts enabled
Interrupt(c) ==
    /\ ~InterruptsDisabled(arch, hw[c])
    /\ irq_in_cs' = [irq_in_cs EXCEPT ![c] = @ \/ IMutexOwned(c) # {}]
    /\ UNCHANGED <<hw, ilock, iowner, interrupt_guard, ipc, imx, iguard, iheld, iret, ihw0>>

(***************************************************************************)
(* Backoff pacer (backoff.rs).  One pacer, constructed by Backoff::new().  *)
(* Every spin-loop hint of snooze is one step.                             *)
(***************************************************************************)
VARIABLES
    bstep,          \* the field `step` of the pacer (u8)
    bpc,            \* position of the caller in snooze
    bi,             \* spin-loop hints the running snooze has issued
    bentry          \* `step` when the snooze made last was called (ghost)

backoffVars == <<bstep, bpc, bi, bentry>>

\* widths of `step` (u8) and of the iteration count (1_u16)
U8Bits == 8
U16Bits == 16

\* Backoff::YIELD_LIMIT
YIELD_LIMIT == 10

\* Backoff::new
BackoffInit ==
    /\ bstep = 0
    /\ bpc = "idle"
    /\ bi = 0
    /\ bentry = 0

\* Backoff::is_completed
is_completed_late(step) == step > YIELD_LIMIT + 1
is_completed(step) == step > YIELD_LIMIT

\* the end of the range 0..1_u16 << self.step
SnoozeSpins(step) == (2 ^ step) % (2 ^ U16Bits)

\* a step update that starts over once the pacer is saturated
SnoozeStepWrap(step) ==
    IF ~is_completed(step) THEN (step + 1) % (2 ^ U8Bits) ELSE 0

\* if !self.is_completed() { self.step += 1; }
SnoozeStepNext(step) ==
    IF ~is_completed(step) THEN (step + 1) % (2 ^ U8Bits) ELSE step

\* snooze is called
SnoozeCall ==
    /\ bpc = "idle"
    /\ bpc' = "spin"
    /\ bi' = 0
    /\ bentry' = bstep
    /\ UNCHANGED bstep

\* one iteration of the for loop: core::hint::spin_loop()
SnoozeSpin ==
    /\ bpc = "spin"
    /\ bi < SnoozeSpins(bstep)
    /\ bi' = bi + 1
    /\ UNCHANGED <<bstep, bpc, bentry>>

\* the loop is over: the step update, and snooze returns
SnoozeStep ==
    /\ bpc = "spin"
    /\ bi >= SnoozeSpins(bstep)
    /\ bstep' = SnoozeStepNext(bstep)
    /\ bpc' = "idle"
    /\ bi' = 0
    /\ UNCHANGED bentry

(***************************************************************************)
(* Specifications: one per component.  The variables of the other          *)
(* components keep the values they have after construction.                *)
(***************************************************************************)
vars == <<debug, spinVars, ticketVars, rwVars, backoffVars, targetVars, gateVars,
          imutexVars>>

\* a fixed target for the components that do not depend on it
TargetFixed == arch = "x86_64" /\ os_none = TRUE
GateFixed == ghw = TRUE /\ GateIdle
IMutexFixed == hw = [c \in Cpu |-> TRUE] /\ IMutexIdle

\* ---- spin mutex
SpinSpecInit ==
    /\ debug = FALSE
    /\ SpinInit /\ TicketInit /\ RwInit /\ BackoffInit
    /\ TargetFixed /\ GateFixed /\ IMutexFixed

spinOthers ==
    <<debug, backoffVars, ticketVars, rwVars, targetVars, gateVars, imutexVars>>

SpinNext ==
    \/ \E c \in Ctx : SpinLockCall(c) /\ UNCHANGED spinOthers
    \/ \E c \in Ctx : SpinLockCas(c) /\ UNCHANGED spinOthers
    \/ \E c \in Ctx : SpinLockSpin(c) /\ UNCHANGED spinOthers
    \/ \E c \in Ctx : SpinTryLock(c) /\ UNCHANGED spinOthers
    \/ \E c \in Ctx : SpinCsRead(c) /\ UNCHANGED spinOthers
    \/ \E c \in Ctx : SpinCsWrite(c) /\ UNCHANGED spinOthers
    \/ \E c \in Ctx : SpinUnlock(c) /\ UNCHANGED spinOthers

SpinSpec == SpinSpecInit /\ [][SpinNext]_vars

\* ---- ticket mutex
TicketSpecInit ==
    /\ debug \in BOOLEAN
    /\ SpinInit /\ TicketInit /\ RwInit /\ BackoffInit
    /\ TargetFixed /\ GateFixed /\ IMutexFixed

ticketOthers ==
    <<debug, backoffVars, spinVars, rwVars, targetVars, gateVars, imutexVars>>

\* the steps of context c
TicketStep(c) ==
    \/ TicketLockFetchAdd(c) /\ UNCHANGED ticketOthers
    \/ TicketLockWait(c) /\ UNCHANGED ticketOthers
    \/ TicketTryLoad(c) /\ UNCHANGED ticketOthers
    \/ TicketTryF(c) /\ UNCHANGED ticketOthers
    \/ TicketTryCas(c) /\ UNCHANGED ticketOthers
    \/ TicketCsRead(c) /\ UNCHANGED ticketOthers
    \/ TicketCsWrite(c) /\ UNCHANGED ticketOthers
    \/ TicketUnlock(c) /\ UNCHANGED ticketOthers
    \/ TicketUnlockFair(c) /\ UNCHANGED ticketOthers
    \/ TicketBumpLoadTicket(c) /\ UNCHANGED ticketOthers
    \/ TicketBumpLoadServing(c) /\ UNCHANGED ticketOthers
    \/ TicketBumpUnlock(c) /\ UNCHANGED ticketOthers
    \/ TicketBumpLock(c) /\ UNCHANGED ticketOthers

TicketNext == \E c \in Ctx : TicketStep(c)

TicketSpec == TicketSpecInit /\ [][TicketNext]_vars

\* ---- ticket mutex whose contexts call lock, try_lock and unlock without
\* end: no context has a budget of tickets, the counters wrap around, and
\* with overflow checks compiled in a try_lock that meets usize::MAX panics
\* and ends its context
TicketLiveStep(c) ==
    \/ TicketLockDraw(c) /\ UNCHANGED <<tdone, ticketOthers>>
    \/ TicketLockWait(c) /\ UNCHANGED ticketOthers
    \/ TicketTryBegin(c) /\ UNCHANGED ticketOthers
    \/ TicketTryF(c) /\ UNCHANGED ticketOthers
    \/ TicketTryExchange(c) /\ UNCHANGED <<tdone, ticketOthers>>
    \/ TicketUnlock(c) /\ UNCHANGED ticketOthers

TicketLiveNext == \E c \in Ctx : TicketLiveStep(c)

\* every context that can take a step eventually takes one: the contexts
\* run on their own CPUs, and a holder goes on to its unlock
TicketLiveSpec ==
    /\ TicketSpecInit
    /\ [][TicketLiveNext]_vars
    /\ \A c \in Ctx : WF_vars(TicketLiveStep(c))

\* ---- ticket mutex whose counters are about to wrap around: the state
\* after usize::MAX - 1 or usize::MAX acquisitions and releases
TicketWrapSpecInit ==
    /\ debug \in BOOLEAN
    /\ SpinInit /\ RwInit /\ BackoffInit
    /\ TargetFixed /\ GateFixed /\ IMutexFixed
    /\ \E n \in {TicketMax - 1, TicketMax} :
          /\ next_ticket = n
          /\ next_serving = n
    /\ tpc = [c \in Ctx |-> "idle"]
    /\ ticket = [c \in Ctx |-> 0]
    /\ tret = [c \in Ctx |-> "none"]
    /\ tcnt = 0
    /\ treg = [c \in Ctx |-> 0]
    /\ tincs = 0
    /\ tdone = [c \in Ctx |-> 0]
    /\ tqueue = << >>

TicketWrapSpec == TicketWrapSpecInit /\ [][TicketNext]_vars

\* ---- readers-writer lock
RwSpecInit ==
    /\ debug \in BOOLEAN
    /\ SpinInit /\ TicketInit /\ RwInit /\ BackoffInit
    /\ TargetFixed /\ GateFixed /\ IMutexFixed

rwOthers ==
    <<debug, backoffVars, spinVars, ticketVars, targetVars, gateVars, imutexVars>>

RwNext ==
    \/ \E c \in Ctx : RwCall(c) /\ UNCHANGED rwOthers
    \/ \E c \in Ctx : RwAcquireShared(c) /\ UNCHANGED rwOthers
    \/ \E c \in Ctx : RwOverflowSub(c) /\ UNCHANGED rwOthers
    \/ \E c \in Ctx : RwUnlockSharedAssert(c) /\ UNCHANGED rwOthers
    \/ \E c \in Ctx : RwUnlockSharedOp(c) /\ UNCHANGED rwOthers
    \/ \E c \in Ctx : RwLockExclusiveCas(c) /\ UNCHANGED rwOthers
    \/ \E c \in Ctx : RwTryLockExclusiveCas(c) /\ UNCHANGED rwOthers
    \/ \E c \in Ctx : RwUnlockExclusiveAssert(c) /\ UNCHANGED rwOthers
    \/ \E c \in Ctx : RwUnlockExclusiveOp(c) /\ UNCHANGED rwOthers
    \/ \E c \in Ctx : RwUpgradableOr(c) /\ UNCHANGED rwOthers
    \/ \E c \in Ctx : RwUnlockUpgradableAssert(c) /\ UNCHANGED rwOthers
    \/ \E c \in Ctx : RwUnlockUpgradableOp(c) /\ UNCHANGED rwOthers
    \/ \E c \in Ctx : RwUpgradeCas(c) /\ UNCHANGED rwOthers
    \/ \E c \in Ctx : RwTryUpgradeCas(c) /\ UNCHANGED rwOthers
    \/ \E c \in Ctx : RwDowngradeToUpgradableAssert(c) /\ UNCHANGED rwOthers
    \/ \E c \in Ctx : RwDowngradeToUpgradableOp(c) /\ UNCHANGED rwOthers

RwSpec == RwSpecInit /\ [][RwNext]_vars

\* a step of context c: every step of a context that changes the state
\* changes its position
RwStepOf(c) == RwNext /\ rpc'[c] # rpc[c]

\* every context that can take a step eventually takes one: the contexts
\* run on their own CPUs
RwLiveSpec == RwSpec /\ \A c \in Ctx : WF_vars(RwStepOf(c))

\* ---- interrupt gate: every target and every value of the register
GateSpecInit ==
    /\ debug = FALSE
    /\ SpinInit /\ TicketInit /\ RwInit /\ BackoffInit
    /\ arch \in Archs
    /\ os_none \in BOOLEAN
    /\ ghw \in HwStates(arch)
    /\ GateIdle
    /\ hw = [c \in Cpu |-> ghw]
    /\ IMutexIdle

gateOthers ==
    <<debug, backoffVars, spinVars, ticketVars, rwVars, targetVars, imutexVars>>

GateNext ==
    \/ GateEnter /\ UNCHANGED gateOthers
    \/ GateReturn /\ UNCHANGED gateOthers
    \/ GatePanic /\ UNCHANGED gateOthers
    \/ GateUnwind /\ UNCHANGED gateOthers
    \/ GateCaught /\ UNCHANGED gateOthers

GateSpec == GateSpecInit /\ [][GateNext]_vars

\* ---- interrupt-masking mutex: every target; each CPU starts with its
\* interrupts enabled or disabled
IMutexSpecInit ==
    /\ debug = FALSE
    /\ SpinInit /\ TicketInit /\ RwInit /\ BackoffInit
    /\ arch \in Archs
    /\ os_none \in BOOLEAN
    /\ hw \in [Cpu -> {imp_set(arch, h, f) : h \in {DISABLE(arch)},
                                             f \in {DISABLE(arch), imp_get(arch, IF arch = "aarch64" THEN 0 ELSE TRUE)}}]
    /\ ghw = hw[1]
    /\ GateIdle
    /\ IMutexIdle

imutexOthers ==
    <<debug, backoffVars, spinVars, ticketVars, rwVars, targetVars, gateVars>>

IMutexNext ==
    \/ \E c \in Cpu, m \in Mutex : IMutexLockDisable(c, m) /\ UNCHANGED imutexOthers
    \/ \E c \in Cpu : IMutexLockInner(c) /\ UNCHANGED imutexOthers
    \/ \E c \in Cpu : IMutexLockWrite(c) /\ UNCHANGED imutexOthers
    \/ \E c \in Cpu, m \in Mutex : IMutexTryDisable(c, m) /\ UNCHANGED imutexOthers
    \/ \E c \in Cpu : IMutexTryInner(c) /\ UNCHANGED imutexOthers
    \/ \E c \in Cpu : IMutexTryWrite(c) /\ UNCHANGED imutexOthers
    \/ \E c \in Cpu : IMutexTryDrop(c) /\ UNCHANGED imutexOthers
    \/ \E c \in Cpu, m \in Mutex : IMutexUnlockReplace(c, m) /\ UNCHANGED imutexOthers
    \/ \E c \in Cpu : IMutexUnlockInner(c) /\ UNCHANGED imutexOthers
    \/ \E c \in Cpu : IMutexUnlockDrop(c) /\ UNCHANGED imutexOthers
    \/ \E c \in Cpu : Interrupt(c) /\ UNCHANGED imutexOthers

IMutexSpec == IMutexSpecInit /\ [][IMutexNext]_vars

\* ---- backoff pacer
BackoffSpecInit ==
    /\ debug = FALSE
    /\ SpinInit /\ TicketInit /\ RwInit /\ BackoffInit
    /\ TargetFixed /\ GateFixed /\ IMutexFixed

backoffOthers ==
    <<debug, spinVars, ticketVars, rwVars, targetVars, gateVars, imutexVars>>

BackoffNext ==
    \/ SnoozeCall /\ UNCHANGED backoffOthers
    \/ SnoozeSpin /\ UNCHANGED backoffOthers
    \/ SnoozeStep /\ UNCHANGED backoffOthers

BackoffSpec == BackoffSpecInit /\ [][BackoffNext]_vars

(***************************************************************************)
(* Properties                                                              *)
(***************************************************************************)

\* C1 (SpinSpec): spin mutex mutual exclusion.  In every interleaving of
\* the atomic steps of lock, try_lock and unlock, at most one context is
\* between a successful lock / try_lock and its unlock.
SpinMutualExclusion == Cardinality(SpinHolders) <= 1

\* C1 witness: a context is inside its critical section for the second
\* time while another spins in lock() and a third had its try_lock refused.
SpinContended ==
    \E c, d, e \in Ctx :
        /\ spc[c] = "cs_write" /\ sdone[c] >= 1
        /\ spc[d] = "lock_spin"
        /\ sret[e] = "false"

\* C2 (TicketSpec): ticket mutex mutual exclusion.  In every interleaving
\* of lock, try_lock, unlock, unlock_fair and bump at most one context
\* holds the lock, and no CNT += 1 made under the lock is lost: CNT equals
\* the number of increments made.
TicketMutualExclusion ==
    /\ Cardinality(TicketHolders) <= 1
    /\ tcnt = tincs

\* C2 witness: every context has drawn all its tickets and released the
\* lock, and every acquisition has incremented CNT.
TicketAllCounted ==
    /\ \A c \in Ctx : tpc[c] = "idle" /\ tdone[c] = MaxIter
    /\ tcnt = NumCtx * MaxIter

\* C3 (TicketSpec): ticket mutex FIFO order.  The holder is the context
\* whose fetch-add on next_ticket came first among the outstanding tickets,
\* and the waiting contexts hold consecutive tickets in the order of their
\* fetch-adds: the i-th of them is served after i - 1 releases.
TicketFifo ==
    /\ \A c \in TicketHolders : tqueue # << >> /\ Head(tqueue) = c
    /\ \A i \in 1 .. Len(tqueue) :
          tpc[tqueue[i]] = "lock_wait" =>
              ticket[tqueue[i]] = (next_serving + i - 1) % TicketMod

\* C3 witness: a holder has finished its critical section while two
\* contexts that drew their tickets after it wait in lock().
TicketQueued ==
    /\ Len(tqueue) >= 3
    /\ tpc[tqueue[1]] = "cs_done"
    /\ tpc[tqueue[2]] = "lock_wait"
    /\ tpc[tqueue[3]] = "lock_wait"

\* C4 (TicketLiveSpec): ticket mutex starvation freedom.  Under weak
\* fairness of every context's steps, with every holder going on to
\* unlock, every call of lock() returns however long the other contexts
\* keep calling lock and try_lock: a context that has drawn its ticket
\* eventually holds the lock.
TicketNoStarvation ==
    \A c \in Ctx : (tpc[c] = "lock_wait") ~> (tpc[c] = "held")

\* a context waits in lock() behind the holder after another context's
\* try_lock was refused
TicketWaiting ==
    \E c, d \in Ctx :
        /\ tpc[c] = "lock_wait" /\ TicketMustWait(next_serving, ticket[c])
        /\ tret[d] = "false"

\* every holder drew the oldest outstanding ticket: no try_lock has
\* succeeded on a value of next_ticket that it loaded 2^W draws earlier
TicketNoStaleTryLock ==
    \A c \in TicketHolders : tqueue # << >> /\ Head(tqueue) = c

\* Starvation arises in no other way: in the behaviours in which no
\* try_lock succeeds on a stale value of next_ticket, every call of lock()
\* returns.
TicketNoStarvationUnlessStale == ([]TicketNoStaleTryLock) => TicketNoStarvation

\* C5 (RwSpec): readers-writer lock writer exclusion.  There is at most
\* one exclusive holder, and never an exclusive holder together with a
\* shared holder.
RwWriterExclusion ==
    /\ Cardinality(RwExclusiveHolders) <= 1
    /\ RwExclusiveHolders # {} => RwSharedHolders = {}

\* C6 (RwSpec): readers-writer lock upgradable exclusion.  There is at
\* most one upgradable holder, and never an upgradable holder together
\* with an exclusive holder.
RwUpgradableExclusion ==
    /\ Cardinality(RwUpgradableHolders) <= 1
    /\ RwUpgradableHolders # {} => RwExclusiveHolders = {}

\* C7 (IMutexSpec): interrupt-masking mutex.  On a freestanding target,
\* whenever the context of a CPU holds an inner mutex the interrupts of
\* that CPU are disabled, so that no interrupt is taken on a CPU whose
\* context holds an inner mutex.
IMutexMasked ==
    os_none =>
        \A c \in Cpu :
            /\ IMutexOwned(c) # {} => InterruptsDisabled(arch, hw[c])
            /\ ~irq_in_cs[c]

\* C8 as stated (GateSpec): on every target and for every value of the
\* register, restore(read_disable()) leaves the register as it was before
\* the call, and interrupts are disabled between the two calls.
GateRoundTripEveryTarget ==
    /\ glast.kind = "return" => ghw = glast.pre
    /\ gstack # << >> => InterruptsDisabled(arch, ghw)

\* C8 as amended (GateSpec): on every target and for every value of the
\* register, restore(read_disable()) leaves the register as it was before
\* the call; on a freestanding target (target_os = "none") interrupts are
\* disabled between the two calls.
GateRoundTrip ==
    /\ glast.kind = "return" => ghw = glast.pre
    /\ os_none /\ gstack # << >> => InterruptsDisabled(arch, ghw)

\* C8 witness: on a freestanding aarch64 target a call entered with only
\* some of the A, I, F bits masked (and D set) has returned.
GateRoundTripDone ==
    /\ os_none /\ arch = "aarch64"
    /\ glast.kind = "return" /\ glast.depth = 1
    /\ glast.pre = DAIF_D + 128

\* the outermost active without_interrupts call was entered with
\* interrupts enabled
GateOuterEnabled == gstack # << >> /\ ~InterruptsDisabled(arch, gstack[1].pre)

\* C9 as stated (GateSpec): when without_interrupts is entered with
\* interrupts enabled and its closure calls without_interrupts again,
\* interrupts are disabled throughout the outer closure, also after each
\* inner call has returned, and they are enabled again when the outermost
\* call returns.
GateNestedEveryTarget ==
    /\ GateOuterEnabled => InterruptsDisabled(arch, ghw)
    /\ glast.kind = "return" /\ glast.depth = 1 /\ ~InterruptsDisabled(arch, glast.pre)
          => ghw = glast.pre

\* C9 as amended (GateSpec): the same on a freestanding target
\* (target_os = "none"); on a hosted target without_interrupts leaves the
\* interrupt state alone.
GateNested ==
    /\ os_none /\ GateOuterEnabled => InterruptsDisabled(arch, ghw)
    /\ ~os_none => ghw = glast.pre
    /\ glast.kind = "return" /\ glast.depth = 1 /\ ~InterruptsDisabled(arch, glast.pre)
          => ghw = glast.pre

\* C9 witness: on a freestanding target an inner call at depth 3 has
\* returned into closures whose outermost call was entered with interrupts
\* enabled.
GateInnerReturned ==
    /\ os_none
    /\ glast.kind = "return" /\ glast.depth = 3
    /\ Len(gstack) = 2 /\ GateOuterEnabled

\* C10 (GateSpec): whether the closure returns or panics, the interrupt
\* state after without_interrupts is left equals the state before it was
\* entered.
GateRestoredOnEveryExit ==
    glast.kind \in {"return", "unwind"} => ghw = glast.pre

\* C11 (SpinSpec): spin mutex try_lock.  The lock word is TRUE exactly
\* while some context holds the mutex (so it is FALSE again after the
\* holder's unlock), and every try_lock step returns true iff the lock word
\* was FALSE at its compare-exchange: then the word becomes TRUE and the
\* caller is the only holder; otherwise the word and the holder are left
\* as they were.
SpinTryLockContract ==
    /\ [](lock <=> SpinHolders # {})
    /\ [][\A c \in Ctx : SpinTryLock(c) =>
            /\ sret'[c] = Ret(lock = FALSE)
            /\ lock = FALSE => lock' = TRUE /\ SpinHolders' = {c}
            /\ lock = TRUE => lock' = TRUE /\ SpinHolders' = SpinHolders]_vars

\* C11 witness: a context's try_lock was refused while another context,
\* whose try_lock succeeded after an earlier holder's unlock, holds the lock.
SpinTryRefused ==
    \E c, d, e \in Ctx :
        /\ c # d
        /\ sret[c] = "false"
        /\ sret[d] = "true" /\ d \in SpinHolders
        /\ sdone[e] >= 1

\* C12 (TicketSpec): ticket mutex try_lock.  A try_lock returns true only
\* at a step where its compare-exchange of next_ticket takes effect while
\* no context holds the lock and none waits in lock(), and the caller is
\* then the only holder and the only context with an outstanding ticket;
\* every step of a try_lock that does not return true (its loads, a failed
\* compare-exchange, its return of false) leaves next_ticket and
\* next_serving unchanged and draws no ticket.
TicketTryLockContract ==
    [][\A c \in Ctx :
          (TicketTryLoad(c) \/ TicketTryF(c) \/ TicketTryCas(c)) =>
              IF tret'[c] = "true"
              THEN /\ TicketHolders = {}
                   /\ \A d \in Ctx : tpc[d] # "lock_wait"
                   /\ next_ticket = next_serving
                   /\ TicketHolders' = {c}
                   /\ tqueue' = <<c>>
              ELSE /\ next_ticket' = next_ticket
                   /\ next_serving' = next_serving
                   /\ tqueue' = tqueue
                   /\ c \notin TicketHolders']_vars

\* C12 witness: a context holds the lock through a successful try_lock,
\* another context's try_lock has returned false and a third waits in lock().
TicketTryRefused ==
    \E c, d, e \in Ctx :
        /\ tret[c] = "true" /\ c \in TicketHolders
        /\ d # c /\ tret[d] = "false" /\ tpc[d] = "idle"
        /\ tpc[e] = "lock_wait"

\* no operation on the readers-writer lock is in flight, except perhaps one
\* of context c
RwQuiescentBut(c) == \A d \in Ctx \ {c} : rpc[d] \in {"idle", "panicked", "assert_failed"}

\* C13 (RwSpec): try_lock_exclusive versus readers.  A try_lock_exclusive
\* made while no other operation is in flight returns false and leaves the
\* state word unchanged if any shared lock is held (whatever the number of
\* shared locks taken and released before), and returns true, making the
\* caller the exclusive holder with the word equal to EXCLUSIVE, if no
\* context holds the lock in any mode.
RwTryExclusiveVersusReaders ==
    [][\A c \in Ctx :
          RwTryLockExclusiveCas(c) /\ RwQuiescentBut(c) =>
              /\ RwSharedHolders # {} =>
                    /\ rret'[c] = "try_lock_exclusive=false"
                    /\ rw' = rw
                    /\ rmode'[c] = "none"
              /\ (\A d \in Ctx : rmode[d] = "none") =>
                    /\ rret'[c] = "try_lock_exclusive=true"
                    /\ rw' = EXCLUSIVE
                    /\ rmode'[c] = "excl"]_vars

\* C13 witness: no operation is in flight, two contexts hold shared locks,
\* one of them two, and the try_lock_exclusive of the third has returned
\* false.
RwTryExclusiveRefused ==
    \E c \in Ctx :
        /\ rret[c] = "try_lock_exclusive=false"
        /\ \A d \in Ctx : rpc[d] = "idle"
        /\ \A d \in Ctx \ {c} : rmode[d] = "shared"
        /\ \E d \in Ctx : rsh[d] = 2
        /\ rw = 3 * SHARED

\* C14 (RwSpec): try_lock_shared versus a writer.  When its fetch_add does
\* not trip the overflow guard, try_lock_shared returns true at once iff
\* the value observed had EXCLUSIVE clear, and otherwise goes on to
\* unlock_shared, whose fetch_sub takes back the SHARED added before false
\* is returned, so that what the caller holds is unchanged; with no other
\* operation in flight and no exclusive holder (as after unlock_exclusive)
\* the call succeeds.
RwTrySharedVersusWriter ==
    [][\A c \in Ctx :
          /\ RwAcquireShared(c) /\ rop[c] = "try_lock_shared" /\ ~RwOverflow(rw) =>
                /\ rw' = rw + SHARED
                /\ IF BitAnd(rw, EXCLUSIVE) = EXCLUSIVE
                   THEN /\ rpc'[c] \in {"unlock_shared_assert", "unlock_shared_op"}
                        /\ rret'[c] = "none"
                        /\ rmode'[c] = rmode[c] /\ rsh'[c] = rsh[c]
                   ELSE /\ rret'[c] = "try_lock_shared=true"
                        /\ rmode'[c] = "shared" /\ rsh'[c] = rsh[c] + 1
                /\ RwQuiescentBut(c) /\ RwExclusiveHolders = {} =>
                      rret'[c] = "try_lock_shared=true"
          /\ rret'[c] = "try_lock_shared=false" /\ rret[c] # rret'[c] =>
                /\ RwUnlockSharedOp(c)
                /\ rw' = rw - SHARED
                /\ rmode'[c] = rmode[c] /\ rsh'[c] = rsh[c]]_vars

\* C14 witness: with the state word equal to EXCLUSIVE and no operation in
\* flight, a context holds the exclusive lock and the try_lock_shared of
\* another has returned false.
RwTrySharedRefused ==
    \E c, d \in Ctx :
        /\ rret[c] = "try_lock_shared=false" /\ rmode[c] = "none"
        /\ rmode[d] = "excl"
        /\ \A e \in Ctx : rpc[e] = "idle"
        /\ rw = EXCLUSIVE

\* C15 (RwSpec): upgrade path.  While a context holds upgradable-read, a
\* try_lock_shared of another context succeeds (unless the overflow guard
\* fires), a try_lock_exclusive and a try_lock_upgradable of another
\* context fail; a try_upgrade of the upgradable holder fails, leaving the
\* state word and its upgradable hold unchanged, while a shared lock is
\* held, and with no shared lock held and no operation in flight it
\* succeeds, after which the word is EXCLUSIVE and the caller holds the
\* lock exclusively.
RwUpgradePath ==
    [][\A c \in Ctx :
          /\ (\E u \in RwUpgradableHolders : u # c) =>
                /\ RwAcquireShared(c) /\ rop[c] = "try_lock_shared" /\ ~RwOverflow(rw) =>
                      rret'[c] = "try_lock_shared=true" /\ rmode'[c] = "shared"
                /\ RwTryLockExclusiveCas(c) =>
                      rret'[c] = "try_lock_exclusive=false" /\ rmode'[c] = "none"
                /\ RwUpgradableOr(c) /\ rop[c] = "try_lock_upgradable" =>
                      /\ rmode'[c] = "none"
                      /\ rret'[c] # "try_lock_upgradable=true"
          /\ RwTryUpgradeCas(c) =>
                /\ RwSharedHolders # {} =>
                      /\ rret'[c] = "try_upgrade=false"
                      /\ rw' = rw /\ rmode'[c] = "upgr"
                /\ RwSharedHolders = {} /\ RwQuiescentBut(c) =>
                      /\ rret'[c] = "try_upgrade=true"
                      /\ rw' = EXCLUSIVE /\ rmode'[c] = "excl"]_vars

\* a context is inside downgrade, or holds the shared lock its downgrade
\* left it with: from the return of downgrade until the unlock_shared after
\* which it holds no shared lock
RwDowngrading(d) == rop[d] = "downgrade" /\ rpc[d] # "panicked"
RwDowngraded(d) == rdown[d]

\* a context other than c holds the upgradable lock or is inside
\* try_lock_upgradable or lock_upgradable, whose fetch_or sets UPGRADABLE
\* before the value it found is tested
RwUpgradableBusy(c) ==
    \E e \in Ctx \ {c} :
        rmode[e] = "upgr" \/ rop[e] \in {"try_lock_upgradable", "lock_upgradable"}

\* C16 as stated (RwSpec): from the call of downgrade by an exclusive
\* holder until it releases the resulting shared lock, no other context
\* becomes an exclusive holder and every try_lock_exclusive returns false;
\* once downgrade has returned, every try_lock_shared and every
\* try_lock_upgradable of another context succeeds.
RwDowngradeEveryTrySucceeds ==
    [][\A c \in Ctx :
          /\ (\E d \in Ctx \ {c} : RwDowngrading(d) \/ RwDowngraded(d)) =>
                /\ rmode[c] # "excl" => rmode'[c] # "excl"
                /\ RwTryLockExclusiveCas(c) =>
                      rret'[c] = "try_lock_exclusive=false" /\ rw' = rw
          /\ (\E d \in Ctx \ {c} : RwDowngraded(d)) =>
                /\ RwAcquireShared(c) /\ rop[c] = "try_lock_shared" =>
                      rret'[c] = "try_lock_shared=true" /\ rmode'[c] = "shared"
                /\ RwUpgradableOr(c) /\ rop[c] = "try_lock_upgradable" =>
                      rret'[c] = "try_lock_upgradable=true" /\ rmode'[c] = "upgr"]_vars

\* C16 (RwSpec): downgrade.  From the call of downgrade by an exclusive
\* holder until it releases the resulting shared lock, no other context
\* becomes an exclusive holder and every try_lock_exclusive returns false;
\* once downgrade has returned, a try_lock_shared of another context
\* succeeds unless the overflow guard of acquire_shared fires, and its
\* try_lock_upgradable succeeds unless a third context holds the
\* upgradable lock or is inside try_lock_upgradable or lock_upgradable.
RwDowngradeKeepsWritersOut ==
    [][\A c \in Ctx :
          /\ (\E d \in Ctx \ {c} : RwDowngrading(d) \/ RwDowngraded(d)) =>
                /\ rmode[c] # "excl" => rmode'[c] # "excl"
                /\ RwTryLockExclusiveCas(c) =>
                      rret'[c] = "try_lock_exclusive=false" /\ rw' = rw
          /\ (\E d \in Ctx \ {c} : RwDowngraded(d)) =>
                /\ RwAcquireShared(c) /\ rop[c] = "try_lock_shared" /\ ~RwOverflow(rw) =>
                      rret'[c] = "try_lock_shared=true" /\ rmode'[c] = "shared"
                /\ (/\ RwUpgradableOr(c) /\ rop[c] = "try_lock_upgradable"
                    /\ ~RwUpgradableBusy(c)) =>
                      rret'[c] = "try_lock_upgradable=true" /\ rmode'[c] = "upgr"]_vars

\* C16 witness: a context has taken a second shared lock since its
\* downgrade returned and still holds the one downgrade left it with, the
\* try_lock_exclusive of a second context has returned false and the
\* try_lock_upgradable of a third has succeeded.
RwDowngradeDone ==
    \E c, d, e \in Ctx :
        /\ RwDowngraded(d) /\ rmode[d] = "shared" /\ rsh[d] = 2
        /\ rret[c] = "try_lock_exclusive=false"
        /\ rret[e] = "try_lock_upgradable=true"
        /\ rw = 2 * SHARED + UPGRADABLE

\* the SHARED units context c has added to the state word and not yet
\* subtracted: one per shared lock it holds, and one while it is between
\* the fetch_add of acquire_shared and the fetch_sub that takes it back
\* or the return that makes it a shared lock of c
RwSharedUnits(c) ==
    rsh[c] +
    (IF \/ rpc[c] = "overflow_sub"
        \/ /\ rpc[c] \in {"unlock_shared_assert", "unlock_shared_op", "assert_failed"}
           /\ rop[c] \in {"try_lock_shared", "lock_shared"}
        \/ /\ rpc[c] \in {"unlock_exclusive_assert", "unlock_exclusive_op", "assert_failed"}
           /\ rop[c] = "downgrade"
        \/ /\ rpc[c] \in {"unlock_upgradable_assert", "unlock_upgradable_op", "assert_failed"}
           /\ rop[c] = "downgrade_upgradable"
     THEN 1 ELSE 0)

RECURSIVE RwSharedUnitsOf(_)
RwSharedUnitsOf(S) ==
    IF S = {} THEN 0
    ELSE LET c == CHOOSE x \in S : TRUE
         IN  RwSharedUnits(c) + RwSharedUnitsOf(S \ {c})

\* C17 (RwSpec): overflow guard.  Whenever the fetch_add of acquire_shared
\* (called by try_lock_shared, lock_shared, downgrade or
\* downgrade_upgradable) observes a value greater than usize::MAX / 2, the
\* caller is granted nothing, its next step subtracts SHARED again and the
\* operation ends in a panic; so the shared count of the state word always
\* equals the units added and not taken back by the contexts, a panicked
\* one accounting for none beyond the shared locks it held before.
RwOverflowGuard ==
    /\ [](rw \div SHARED = RwSharedUnitsOf(Ctx))
    /\ [][\A c \in Ctx :
            /\ RwAcquireShared(c) /\ rw > RwMax \div 2 =>
                  /\ rw' = (rw + SHARED) % RwMod
                  /\ rpc'[c] = "overflow_sub"
                  /\ rmode'[c] = rmode[c] /\ rsh'[c] = rsh[c] /\ rret'[c] = "none"
            /\ rpc[c] = "overflow_sub" /\ rpc'[c] # rpc[c] =>
                  /\ rw' = (rw + RwMod - SHARED) % RwMod
                  /\ rpc'[c] = "panicked"
                  /\ rmode'[c] = rmode[c] /\ rsh'[c] = rsh[c] /\ rret'[c] = "none"
            /\ rpc[c] = "panicked" => rpc'[c] = "panicked"]_vars

\* C17 witness: the shared locks held put the state word above
\* usize::MAX / 2, no operation is in flight and a context whose
\* try_lock_shared met the guard has panicked; the word holds exactly the
\* units of the shared locks held.
RwOverflowPanicked ==
    \E c \in Ctx :
        /\ rpc[c] = "panicked" /\ rop[c] = "try_lock_shared"
        /\ \A d \in Ctx \ {c} : rpc[d] = "idle" /\ rmode[d] = "shared"
        /\ rw > RwMax \div 2
        /\ rw = SHARED * RwSharedUnitsOf(Ctx)

\* C18 (BackoffSpec): backoff saturation is monotone.  Over any sequence of
\* snooze calls on one pacer no step decreases the step counter, and a step
\* taken while is_completed() is true leaves it true; so a snooze that was
\* called on a saturated pacer returns with the pacer saturated and with a
\* step counter no lower than the one it was called with.
BackoffMonotone ==
    /\ [][/\ bstep' >= bstep
          /\ (is_completed(bstep) => is_completed(bstep'))]_vars
    /\ [](bpc = "idle" => /\ bstep >= bentry
                          /\ (is_completed(bentry) => is_completed(bstep)))

\* a snooze called on a saturated pacer has issued all its spin-loop hints
\* and has returned
BackoffSaturatedSnoozed ==
    /\ bpc = "idle"
    /\ is_completed(bentry)
    /\ is_completed(bstep)

\* a context holds the upgradable lock its downgrade_to_upgradable left it
\* with (it has made no call since downgrade_to_upgradable returned)
RwDowngradedToUpgradable(d) == rret[d] = "downgrade_to_upgradable=done"

\* C19 (RwSpec): downgrade_to_upgradable.  When the exclusive holder calls
\* downgrade_to_upgradable, in every interleaving with the lock_upgradable
\* and try_lock_upgradable of other contexts, its fetch_xor leaves the
\* state word with UPGRADABLE set and EXCLUSIVE clear and the caller the
\* only holder of the upgradable or the exclusive lock; and while the
\* caller holds the upgradable lock it was left with, no other context
\* becomes a holder of the exclusive or of the upgradable lock.
RwDowngradeToUpgradable ==
    [][\A c \in Ctx :
          /\ (RwDowngradeToUpgradableOp(c) /\ rmode[c] = "excl") =>
                /\ BitAnd(rw', UPGRADABLE) = UPGRADABLE
                /\ BitAnd(rw', EXCLUSIVE) = 0
                /\ rmode'[c] = "upgr"
                /\ \A d \in Ctx \ {c} : rmode'[d] \notin {"excl", "upgr"}
          /\ (\E d \in Ctx \ {c} : RwDowngradedToUpgradable(d)) =>
                (rmode[c] \notin {"excl", "upgr"} => rmode'[c] \notin {"excl", "upgr"})]_vars

\* context c is at the rollback of a failed try_lock_upgradable (also one
\* made by lock_upgradable): the unlock_upgradable it calls is under way
RwRollingBack(c) ==
    /\ rpc[c] \in {"unlock_upgradable_assert", "unlock_upgradable_op"}
    /\ rop[c] \in {"try_lock_upgradable", "lock_upgradable"}

\* C20 (RwSpec): rollback of try_lock_upgradable.  A failing
\* try_lock_upgradable whose fetch_or observed UPGRADABLE set leaves the
\* state word as it was and makes no further write; it goes on to clear
\* UPGRADABLE only when the value observed had EXCLUSIVE set and UPGRADABLE
\* clear.  In every interleaving the fetch_and of that rollback finds the
\* UPGRADABLE bit its own fetch_or set, and no context holds upgradable-read
\* when it clears the bit.
RwUpgradableRollbackOwnBit ==
    [][\A c \in Ctx :
          /\ (RwUpgradableOr(c) /\ BitAnd(rw, UPGRADABLE) = UPGRADABLE) =>
                /\ rw' = rw
                /\ rmode'[c] = "none"
                /\ rpc'[c] \in {"idle", "upgradable_or"}
                /\ rop[c] = "try_lock_upgradable" => rret'[c] = "try_lock_upgradable=false"
          /\ (RwUpgradableOr(c) /\ RwRollingBack(c)') =>
                /\ BitAnd(rw, EXCLUSIVE) = EXCLUSIVE
                /\ BitAnd(rw, UPGRADABLE) = 0
          /\ (RwUpgradableOr(c) /\ BitAnd(rw, EXCLUSIVE) = EXCLUSIVE
                                /\ BitAnd(rw, UPGRADABLE) = 0) =>
                rw' = rw + UPGRADABLE
          /\ (RwRollingBack(c) /\ RwUnlockUpgradableOp(c)) =>
                /\ BitAnd(rw, UPGRADABLE) = UPGRADABLE
                /\ RwUpgradableHolders = {}
                /\ rw' = rw - UPGRADABLE]_vars

\* the state word has EXCLUSIVE set and a non-zero shared count
RwOverlap(w) == is_locked_exclusive(w) /\ w \div SHARED > 0

\* context c is inside a try_lock_shared (also one made by lock_shared),
\* after the fetch_add of acquire_shared and before the fetch_sub that
\* takes it back
RwTrySharedInFlight(c) ==
    /\ rop[c] \in {"try_lock_shared", "lock_shared"}
    /\ rpc[c] \in {"overflow_sub", "unlock_shared_assert", "unlock_shared_op"}

\* C21 (RwSpec): state-word overlap.  In every reachable state in which the
\* state word has EXCLUSIVE set and a non-zero shared count, some
\* try_lock_shared is between its fetch_add and its rollback; and every
\* step that produces the overlap is the fetch_add of a try_lock_shared.
RwOverlapOnlyInTryLockShared ==
    /\ [](RwOverlap(rw) => \E c \in Ctx : RwTrySharedInFlight(c))
    /\ [][(~RwOverlap(rw) /\ RwOverlap(rw')) =>
             \E c \in Ctx : /\ RwAcquireShared(c)
                            /\ rop[c] \in {"try_lock_shared", "lock_shared"}]_vars

\* the shared locks held by the contexts of S
RECURSIVE RwSharedHeldOf(_)
RwSharedHeldOf(S) ==
    IF S = {} THEN 0
    ELSE LET c == CHOOSE x \in S : TRUE
         IN  rsh[c] + RwSharedHeldOf(S \ {c})

\* (usize::MAX / 2) / SHARED
RwSharedLimit == (RwMax \div 2) \div SHARED

\* no operation is in flight: every context is idle or has panicked in
\* acquire_shared, after its fetch_sub
RwSteady == \A c \in Ctx : rpc[c] \in {"idle", "panicked"}

\* C22 as stated (RwSpec): in every reachable state the shared count of the
\* state word is at most (usize::MAX / 2) / SHARED.
RwSharedCountBelowHalf == [](rw \div SHARED <= RwSharedLimit)

\* C22 (RwSpec), amended: shared-count bound.  acquire_shared is fatal when
\* the value its fetch_add returns, the word before the increment, exceeds
\* usize::MAX / 2, and grants the lock when that value is at most
\* usize::MAX / 2 even if the increment takes the word across; so the
\* shared locks held number at most (usize::MAX / 2) / SHARED + 1 in every
\* reachable state, and so does the shared count of the word when no
\* operation is in flight.
RwSharedCountBound ==
    /\ [](RwSharedHeldOf(Ctx) <= RwSharedLimit + 1)
    /\ [](RwSteady => rw \div SHARED <= RwSharedLimit + 1)
    /\ [][\A c \in Ctx :
            (RwAcquireShared(c) /\ rop[c] = "try_lock_shared" /\ rw <= RwMax \div 2
                                /\ ~is_locked_exclusive(rw)) =>
                /\ rret'[c] = "try_lock_shared=true"
                /\ rsh'[c] = rsh[c] + 1]_vars

\* C22 witness: with no operation in flight the contexts hold
\* (usize::MAX / 2) / SHARED + 1 shared locks, the last granted by an
\* increment that took the word across usize::MAX / 2
RwSharedCountAtBound ==
    /\ \A c \in Ctx : rpc[c] = "idle"
    /\ RwSharedHeldOf(Ctx) = RwSharedLimit + 1
    /\ rw = SHARED * (RwSharedLimit + 1)
    /\ rw > RwMax \div 2

\* C23 as stated (TicketSpec): in every reachable state
\* next_ticket - next_serving (mod 2^W) is 0 when the mutex is unlocked (no
\* ticket is drawn and not yet released) and 1 when it is locked.
TicketDifferenceZeroOrOne ==
    [](((next_ticket + TicketMod - next_serving) % TicketMod) =
          (IF tqueue = << >> THEN 0 ELSE 1))

\* C23 (TicketSpec), amended: counter invariant.  In every reachable state
\* next_ticket - next_serving (mod 2^W) is the number of tickets drawn and
\* not yet released, the holder's and one per waiting context: 0 when the
\* mutex is unlocked and nobody waits, 1 when it is locked and nobody
\* waits.  is_locked() is true exactly when such a ticket exists, so it is
\* false before any lock and true while a holder exists, and false again
\* after the holder unlocks when no context waits.
TicketCounterInvariant ==
    /\ [](((next_ticket + TicketMod - next_serving) % TicketMod) = Len(tqueue))
    /\ [](ticket_is_locked(next_ticket, next_serving) <=> tqueue # << >>)
    /\ [](\A c \in TicketHolders : tqueue # << >> /\ Head(tqueue) = c)
    /\ [][\A c \in Ctx :
            (TicketUnlock(c) /\ Len(tqueue) = 1) =>
                ~ticket_is_locked(next_ticket', next_serving')]_vars

\* C23 witness: one context holds the mutex and the two others wait with
\* a ticket each; the counters differ by 3
TicketHeldWithWaiters ==
    /\ TicketHolders # {}
    /\ Len(tqueue) = NumCtx
    /\ (next_ticket + TicketMod - next_serving) % TicketMod = NumCtx
    /\ ticket_is_locked(next_ticket, next_serving)

\* C24 (TicketSpec): bump.  When the holder's bump finds no other ticket
\* outstanding (the next_ticket it read is next_serving + 1), it leaves
\* both counters unchanged and the caller holds the lock on return; when it
\* finds one, another context is waiting, and bump releases the lock
\* (next_serving + 1, the caller leaves the head of the queue), draws the
\* ticket next_ticket behind every ticket issued before, and returns only
\* when the caller is the oldest outstanding ticket, so every context that
\* waited when bump started has held the lock before.  At most one context
\* holds the lock throughout.
TicketBumpContract ==
    /\ [](Cardinality(TicketHolders) <= 1)
    /\ [](\A c \in TicketHolders : tqueue # << >> /\ Head(tqueue) = c)
    /\ [][\A c \in Ctx :
            /\ (TicketBumpLoadServing(c) /\ ~(debug /\ next_serving = TicketMax)) =>
                  /\ c \in TicketHolders /\ c \in TicketHolders'
                  /\ next_ticket' = next_ticket /\ next_serving' = next_serving
                  /\ Len(tqueue) = 1 => tpc'[c] = "held_bumped"
                  /\ ticket[c] = (next_serving + 1) % TicketMod => tpc'[c] = "held_bumped"
                  /\ ticket[c] # (next_serving + 1) % TicketMod =>
                        /\ tpc'[c] = "bump_unlock"
                        /\ Len(tqueue) >= 2
                        /\ \A i \in 2 .. Len(tqueue) : tpc[tqueue[i]] = "lock_wait"
            /\ TicketBumpUnlock(c) =>
                  /\ next_serving' = (next_serving + 1) % TicketMod
                  /\ next_ticket' = next_ticket
                  /\ Head(tqueue) = c /\ tqueue' = Tail(tqueue)
                  /\ c \notin TicketHolders'
            /\ TicketBumpLock(c) =>
                  /\ ticket'[c] = next_ticket
                  /\ next_ticket' = (next_ticket + 1) % TicketMod
                  /\ tqueue' = Append(tqueue, c)
                  /\ c \notin TicketHolders'
            /\ (TicketLockWait(c) /\ tret[c] = "bump" /\ tpc'[c] = "held") =>
                  /\ Head(tqueue) = c
                  /\ ticket[c] = next_serving
                  /\ TicketHolders' = {c}]_vars

\* C24 witness: a context holds the lock again after its bump released it
\* to a waiting context, whose critical section is done
TicketBumpedBehind ==
    \E c \in Ctx :
        /\ tpc[c] = "held" /\ tret[c] = "bump"
        /\ Head(tqueue) = c
        /\ tincs >= 1

\* C25 (IMutexSpec): try_lock failure of the interrupt-masking mutex.  When
\* the inner try_lock fails, try_lock stores no guard, drops its own and
\* returns false: the interrupt state register of the CPU is then what it
\* was when try_lock was called, the inner lock word, its owner and the
\* guard the holder stored are untouched, and the caller holds what it
\* held before.
IMutexTryLockFailure ==
    [][\A c \in Cpu :
          /\ (IMutexTryInner(c) /\ ilock[imx[c]]) =>
                /\ ipc'[c] = "try_drop"
                /\ ilock' = ilock /\ iowner' = iowner
                /\ interrupt_guard' = interrupt_guard
          /\ IMutexTryDrop(c) =>
                /\ iret'[c] = "false"
                /\ hw'[c] = ihw0[c]
                /\ InterruptsDisabled(arch, hw'[c]) = InterruptsDisabled(arch, ihw0[c])
                /\ ilock' = ilock /\ iowner' = iowner
                /\ interrupt_guard' = interrupt_guard
                /\ iheld' = iheld]_vars

\* C25 witness: on a freestanding target the try_lock of a CPU has
\* returned false with interrupts enabled again, while the other CPU holds
\* the mutex with the guard it stored, which keeps interrupts enabled flags
IMutexTryRefused ==
    \E c, d \in Cpu, m \in Mutex :
        /\ os_none
        /\ iret[c] = "false" /\ ipc[c] = "idle" /\ iheld[c] = {}
        /\ ~InterruptsDisabled(arch, hw[c])
        /\ d # c /\ m \in iheld[d] /\ iowner[m] = d
        /\ interrupt_guard[m].init
        /\ interrupt_guard[m].flags # DISABLE(arch)

\* the mutex the context of CPU c locked first: the one whose stored guard
\* holds flags other than DISABLE, read while interrupts were enabled
IMutexOutermost(c) ==
    {m \in iheld[c] : interrupt_guard[m].init /\ interrupt_guard[m].flags # DISABLE(arch)}

\* C26 as stated (IMutexSpec): on every target, when the lock of a first
\* interrupt-masking mutex returns the interrupts of the CPU are disabled,
\* and they are while the context holds that mutex.
IMutexNestedEveryTarget ==
    /\ [](\A c \in Cpu : IMutexOutermost(c) # {} => InterruptsDisabled(arch, hw[c]))
    /\ [][\A c \in Cpu :
            (IMutexLockWrite(c) /\ iheld[c] = {}) => InterruptsDisabled(arch, hw'[c])]_vars

\* C26 (IMutexSpec), amended: nested interrupt-masking locks.  On a
\* freestanding target a context that locks A with interrupts enabled has
\* them disabled while it holds A, whatever it locks and unlocks
\* meanwhile: the guard of a mutex B locked while it holds A holds
\* DISABLE, and the unlock of B leaves the register as it is; the unlock
\* of A, when the context holds nothing else, sets the register back to
\* the flags read by the lock of A, interrupts enabled.  On a hosted
\* target no lock or unlock changes the register.
IMutexNested ==
    /\ [](\A c \in Cpu :
            (os_none /\ IMutexOutermost(c) # {}) => InterruptsDisabled(arch, hw[c]))
    /\ [][\A c \in Cpu :
            /\ (os_none /\ IMutexLockWrite(c) /\ iheld[c] = {}) =>
                  /\ InterruptsDisabled(arch, hw'[c])
                  /\ interrupt_guard'[imx[c]] =
                        [init |-> TRUE, flags |-> imp_get(arch, ihw0[c])]
            /\ (os_none /\ IMutexLockWrite(c) /\ IMutexOutermost(c) # {}) =>
                  /\ interrupt_guard'[imx[c]] = [init |-> TRUE, flags |-> DISABLE(arch)]
                  /\ hw' = hw
            /\ (os_none /\ IMutexUnlockDrop(c) /\ IMutexOutermost(c) # {}) =>
                  /\ iguard[c] = DISABLE(arch)
                  /\ hw' = hw
            /\ (os_none /\ IMutexUnlockDrop(c) /\ iheld[c] = {}
                        /\ iguard[c] # DISABLE(arch)) =>
                  /\ InterruptsDisabled(arch, hw[c])
                  /\ ~InterruptsDisabled(arch, hw'[c])
                  /\ imp_get(arch, hw'[c]) = iguard[c]
            /\ ~os_none => hw' = hw]_vars

\* C26 witness: on a freestanding target a context holds the mutex it
\* locked first, with interrupts enabled, after the unlock of a second
\* mutex has returned; interrupts are still disabled
IMutexInnerUnlocked ==
    \E c \in Cpu :
        /\ os_none
        /\ ipc[c] = "idle" /\ iret[c] = "unlocked"
        /\ Cardinality(iheld[c]) = 1
        /\ IMutexOutermost(c) = iheld[c]
        /\ InterruptsDisabled(arch, hw[c])

\* C27 (RwLiveSpec): reader preference.  A context spinning in
\* lock_exclusive, or in upgrade while it holds the upgradable lock, leaves
\* the state word as it is for as long as its compare-exchange fails, and a
\* try_lock_shared of another context succeeds meanwhile unless a writer
\* holds the lock or the overflow guard fires; the compare-exchange of
\* lock_exclusive succeeds only on the word 0 and that of upgrade only on
\* the word UPGRADABLE, so neither returns while a shared lock is held.
RwReaderPreference ==
    [][\A c \in Ctx :
          /\ (/\ RwAcquireShared(c) /\ rop[c] = "try_lock_shared"
              /\ \E w \in Ctx \ {c} : rpc[w] \in {"lock_exclusive_cas", "upgrade_cas"}
              /\ ~is_locked_exclusive(rw) /\ ~RwOverflow(rw)) =>
                /\ rret'[c] = "try_lock_shared=true"
                /\ rmode'[c] = "shared" /\ rsh'[c] = rsh[c] + 1
          /\ (RwLockExclusiveCas(c) /\ rw \div SHARED > 0) =>
                /\ rw' = rw
                /\ rpc'[c] = "lock_exclusive_cas" /\ rmode'[c] = "none"
          /\ (RwUpgradeCas(c) /\ rw \div SHARED > 0) =>
                /\ rw' = rw
                /\ rpc'[c] = "upgrade_cas" /\ rmode'[c] = "upgr"]_vars

\* C27 witness: a context spins in lock_exclusive and another in upgrade
\* while the try_lock_shared of a third has returned true; the word holds
\* the shared lock and the upgradable one
RwWriterWaitsBehindReader ==
    \E c, d, e \in Ctx :
        /\ rpc[c] = "lock_exclusive_cas"
        /\ rpc[d] = "upgrade_cas" /\ rmode[d] = "upgr"
        /\ rret[e] = "try_lock_shared=true" /\ rmode[e] = "shared"
        /\ rw = SHARED + UPGRADABLE

\* C27, the starvation it allows (RwLiveSpec): if every lock_exclusive and
\* every upgrade made progress against readers, each context would again
\* and again be outside lock_exclusive and upgrade or see a shared count
\* of 0.  TLC refutes this with a weakly fair execution in which a context
\* stays in lock_exclusive for ever while the shared locks of the others
\* overlap and the shared count never returns to 0.
RwWriterNotStarved ==
    \A c \in Ctx :
        []<>(rpc[c] \notin {"lock_exclusive_cas", "upgrade_cas"} \/ rw \div SHARED = 0)

\* C28 as stated (BackoffSpec): with STEP_MAX = 11, that is YIELD_LIMIT + 1,
\* the step counter never exceeds STEP_MAX and is_completed() is true iff
\* step > STEP_MAX.
BackoffCapEleven ==
    [](/\ bstep <= YIELD_LIMIT + 1
       /\ (is_completed(bstep) <=> bstep > YIELD_LIMIT + 1))

\* C28 (BackoffSpec), amended: backoff cap.  Starting from step = 0, after
\* any number of snooze calls the step counter never exceeds
\* YIELD_LIMIT + 1 = 11, and is_completed() is true iff step > YIELD_LIMIT
\* = 10, that is iff the counter has reached its cap of 11.
BackoffCap ==
    [](/\ bstep \in 0 .. YIELD_LIMIT + 1
       /\ (is_completed(bstep) <=> bstep > YIELD_LIMIT)
       /\ (is_completed(bstep) <=> bstep = YIELD_LIMIT + 1))

\* C28 witness: the snooze called at step = YIELD_LIMIT has returned; the
\* counter is at its cap and is_completed() is true
BackoffAtCap ==
    /\ bpc = "idle"
    /\ bentry = YIELD_LIMIT
    /\ bstep = YIELD_LIMIT + 1
    /\ is_completed(bstep)

\* C29 (RwSpec): quiescence.  In every reachable state in which no context
\* holds the lock in any mode and no operation is in flight the state word
\* is 0: no acquire, failed try, release, upgrade or downgrade leaves a
\* SHARED, UPGRADABLE or EXCLUSIVE contribution behind.  A try_lock_exclusive
\* made in such a state succeeds and sets the word to EXCLUSIVE.
RwQuiescentWordZero ==
    /\ []((\A c \in Ctx : rpc[c] = "idle" /\ rmode[c] = "none") => rw = 0)
    /\ [][\A c \in Ctx :
            (/\ RwTryLockExclusiveCas(c)
             /\ \A d \in Ctx \ {c} : rpc[d] = "idle" /\ rmode[d] = "none") =>
                /\ rw = 0
                /\ rret'[c] = "try_lock_exclusive=true"
                /\ rw' = EXCLUSIVE /\ rmode'[c] = "excl"]_vars

\* C29 witness: the lock is quiescent after a try_lock_shared and a
\* try_lock_upgradable have failed and rolled back, which takes a context
\* that held the exclusive lock and has released it; the word is 0
RwQuiescentAfterRollbacks ==
    \E c, d \in Ctx :
        /\ \A x \in Ctx : rpc[x] = "idle" /\ rmode[x] = "none"
        /\ rret[c] = "try_lock_shared=false"
        /\ rret[d] = "try_lock_upgradable=false"
        /\ rw = 0

\* C30 (TicketWrapSpec): counter wrap-around.  With the counters wrapping
\* from 2^W - 1 to 0, at most one context holds the mutex, the holder is
\* the oldest outstanding ticket and the waiting contexts hold the
\* consecutive tickets (mod 2^W) after it; no operation panics; the closure
\* of try_lock goes on to its compare-exchange iff next_serving equals the
\* ticket it read, also when that ticket is 2^W - 1, and bump releases iff
\* the next_ticket it read is not next_serving + 1 (mod 2^W), also when
\* next_serving is 2^W - 1.
TicketWrapAround ==
    /\ [](Cardinality(TicketHolders) <= 1)
    /\ [](\A c \in TicketHolders : tqueue # << >> /\ Head(tqueue) = c)
    /\ [](\A i \in 1 .. Len(tqueue) :
            tpc[tqueue[i]] = "lock_wait" =>
                ticket[tqueue[i]] = (next_serving + i - 1) % TicketMod)
    /\ [](\A c \in Ctx : tpc[c] \notin {"panicked", "panicked_held"})
    /\ [][\A c \in Ctx :
            /\ TicketTryF(c) =>
                  tpc'[c] = IF next_serving = ticket[c] THEN "try_cas" ELSE "idle"
            /\ TicketBumpLoadServing(c) =>
                  tpc'[c] = IF ticket[c] # (next_serving + 1) % TicketMod
                            THEN "bump_unlock" ELSE "held_bumped"]_vars

====
